---------------------------- MODULE Spec2Model ----------------------------
(***************************************************************************)
(* A model of backend/fb_scraper.py: the two-stage scraping pipeline       *)
(* (scrape_facebook_group, stage1_collect_links, stage2_deep_scrape,       *)
(* scrape_single_profile) and its export (save_to_csv).                    *)
(*                                                                         *)
(* The pipeline is one coroutine; an action of the model is the code       *)
(* between two points where the environment can be observed to change.     *)
(* The environment is the browser (navigations and evaluations succeed or  *)
(* raise), the file system (writes succeed or raise), the wall clock and   *)
(* the Facebook session (which can expire at any time).                    *)
(***************************************************************************)
EXTENDS Integers, Sequences, FiniteSets, TLC

(***************************************************************************)
(* Bounds of the model.                                                    *)
(***************************************************************************)
MaxUrls == 2
MaxMembers == 1
MaxCsvLen == 5
MaxCandidates == 51
MaxFaults == 1
MaxClock == 3
MaxDicts == 6
MaxCheckpoints == 2
MaxListed == 3
MaxScanned == 5
MaxPhoneMatches == 2
MaxEarlierBlocks == 183

(***************************************************************************)
(* Program constants.                                                      *)
(***************************************************************************)
max_scrolls == 50000
max_consecutive_errors == 5
NoNewLimit == 20
Stage1CheckEvery == 100
Stage1Budget == 10800
Stage2CheckEvery == 50
Stage2Budget == 14400
Stage2StatusEvery == 10
max_errors == 5
checkpoint_interval == 50

(* The wall clock is read in steps of this many seconds. *)
ClockStep == 7200

Targets == {"g1", "g2"}
Industry == "plumbing"

RECURSIVE SeqsUpTo(_, _)
SeqsUpTo(S, n) ==
  IF n = 0 THEN {<<>>}
  ELSE LET shorter == SeqsUpTo(S, n - 1)
       IN shorter \cup {Append(s, x) : s \in {t \in shorter : Len(t) = n - 1}, x \in S}

Range(s) == {s[i] : i \in 1..Len(s)}

(***************************************************************************)
(* save_to_csv                                                             *)
(***************************************************************************)
Phones == {"", "555-123-4567"}
Websites == {"", "https://a.com"}

(* Python truthiness of item.get(key) for the string fields of a record. *)
Truthy(s) == s # ""

(* item.get(key), and what DictWriter writes for a key the item lacks: a    *)
(* missing field reads as None, which is falsy and is written as ''.        *)
Get(item, key) == IF key \in DOMAIN item THEN item[key] ELSE ""

(* prospect_score: the sort key (has_phone + no_website, has_phone). *)
ProspectScoreFlat(item) ==
  LET has_phone == IF Truthy(Get(item, "phone")) THEN 1 ELSE 0
      no_website == IF ~Truthy(Get(item, "website")) THEN 1 ELSE 0
  IN <<has_phone + no_website, 0>>

ProspectScore(item) ==
  LET has_phone == IF Truthy(Get(item, "phone")) THEN 1 ELSE 0
      no_website == IF ~Truthy(Get(item, "website")) THEN 1 ELSE 0
  IN <<has_phone + no_website, has_phone>>

(* Python's order on 2-tuples. *)
TupleLess(a, b) == a[1] < b[1] \/ (a[1] = b[1] /\ a[2] < b[2])

(* sorted(data, key=prospect_score, reverse=True): a stable sort; reverse   *)
(* keeps the input order of items with equal keys.  The keys are pairs of   *)
(* (0..2, 0..1); the sorted list is, key after key from the greatest down,  *)
(* the items of that key in their order in data.                            *)
ScoreOrder == <<(<<2, 1>>), (<<2, 0>>), (<<1, 1>>), (<<1, 0>>), (<<0, 1>>), (<<0, 0>>)>>

WithScore(data, k) ==
  LET HasScore(item) == ProspectScore(item) = k
  IN SelectSeq(data, HasScore)

SortedDesc(data) ==
  WithScore(data, ScoreOrder[1]) \o WithScore(data, ScoreOrder[2]) \o
  WithScore(data, ScoreOrder[3]) \o WithScore(data, ScoreOrder[4]) \o
  WithScore(data, ScoreOrder[5]) \o WithScore(data, ScoreOrder[6])

ProspectQualitySwapped(item) ==
  LET has_phone == Truthy(Get(item, "phone"))
      has_website == Truthy(Get(item, "website"))
  IN IF has_phone /\ ~has_website THEN "HOT"
     ELSE IF has_phone THEN "WARM"
     ELSE IF ~has_website THEN "LOW"
     ELSE "COLD"

(* The if/elif chain that sets item['prospect_quality']. *)
ProspectQuality(item) ==
  LET has_phone == Truthy(Get(item, "phone"))
      has_website == Truthy(Get(item, "website"))
  IN IF has_phone /\ ~has_website THEN "HOT"
     ELSE IF has_phone THEN "WARM"
     ELSE IF ~has_website THEN "COLD"
     ELSE "LOW"

fieldnames ==
  <<"prospect_quality", "name", "phone", "website", "has_website", "about", "work", "url">>

(* One row of the file: DictWriter(fieldnames, extrasaction='ignore') keeps *)
(* the columns of fieldnames only and writes '' for a column the item lacks. *)
CsvRow(item) ==
  [k \in Range(fieldnames) |->
     IF k = "prospect_quality" THEN ProspectQuality(item) ELSE Get(item, k)]

CsvRowsTruncated(data) ==
  LET sorted_data == SortedDesc(data)
  IN [i \in 1..(Len(sorted_data) - 1) |-> CsvRow(sorted_data[i])]

(* The rows save_to_csv writes for a non-empty data. *)
CsvRows(data) ==
  LET sorted_data == SortedDesc(data)
  IN [i \in 1..Len(sorted_data) |-> CsvRow(sorted_data[i])]

(***************************************************************************)
(* The member list and the profile pages: the environment's data.         *)
(***************************************************************************)
(* The number of members the member list of a group shows. *)
GroupSize(url) ==
  IF url = "g3" THEN MaxListed ELSE IF url = "g5" THEN MaxScanned ELSE MaxMembers

NameLines == <<"Ann", "Bob", "Cy", "See more">>
NameLine(m) == NameLines[((m - 1) % 4) + 1]

(* href of the first a[href*="/user/"] of a list item.  Group member links  *)
(* are /groups/<gid>/user/<digits>/; "vanity" stands for an href that holds *)
(* "/user/" followed by no digit.                                           *)
MemberHref(m) == [form |-> IF m % 5 = 0 THEN "vanity" ELSE "user", id |-> m]

(* innerText of the link, as lines. *)
MemberText(m) == IF m % 2 = 0 THEN <<NameLine(m), "Admin">> ELSE <<NameLine(m)>>

MemberContext(m) == IF m % 3 = 0 THEN "hello there" ELSE "plumbing contractor"

(* One entry of members_data, as page.evaluate returns it. *)
MemberItem(m) == [href |-> MemberHref(m), name |-> MemberText(m), context |-> MemberContext(m)]

(* One entry of matches. *)
Candidate(m) == [url |-> MemberHref(m), text |-> MemberText(m), context |-> MemberContext(m)]

(* What the extraction script finds on the profile page of a member. *)
PagePhone(id) == IF id % 2 = 1 THEN "555-123-4567" ELSE ""
PageWebsite(id) == IF (id \div 2) % 2 = 1 THEN "https://a.com" ELSE ""
PageAbout(id) == IF id % 3 = 0 THEN "" ELSE "1K followers | bio"

(* title of the members page of a target. *)
PageTitle(url) == IF url = "g1" THEN <<"Plumbers", "Facebook">> ELSE <<>>

(***************************************************************************)
(* The state.                                                              *)
(***************************************************************************)
VARIABLES
  pc,                  \* where the coroutine stands
  urls,                \* scrape_facebook_group: the targets
  cookieStore,         \* the content of COOKIES_FILE
  page_view,           \* is_login_page: the page as its probes find it, and the verdict
  profile,             \* the extraction script of scrape_single_profile: text and phone
  loggedIn,            \* the session is still valid
  elapsed,             \* the wall clock as last read, in seconds since start_time
  browser,             \* "none", "open", "closed"
  url_idx,             \* scrape_facebook_group: the 1-based loop index
  results,             \* scrape_facebook_group: the per-target entries
  all_matches,         \* scrape_facebook_group: the leads of all targets
  total_scanned,
  group_names_scraped,
  group_name,          \* the name of the target being processed
  retval,              \* what scrape_facebook_group returned
  files,               \* SCRAPE_DIR: the files written
  tokens,              \* the number of random suffixes drawn
  sink,                \* what status_callback has received
  all_scanned,         \* stage1_collect_links
  list_items,          \* the members the page listed at the last extraction pass
  matches,             \* stage 1's matches, then stage 2's candidates
  no_new_count,
  scroll_count,
  consecutive_errors,
  last_pass,           \* history: what the last turn of stage 1's loop did
  idx,                 \* stage2_deep_scrape: the 0-based loop index
  s2_results,          \* stage2_deep_scrape: results
  errors_in_row,
  last_checkpoint,
  checkpoint_base,
  outcomes,            \* history: how each processed candidate's scrape ended
  cutoff,              \* history: stage 2 stopped on its wall-clock cutoff
  faults,              \* history: the evaluations, scrolls and scrapes that failed so far
  scrapedLoggedOut,    \* history: a candidate was scraped after the session expired
  expiredIn,           \* history: where the coroutine stood when the session expired
  timed_out,           \* history: a stage of this job stopped on its wall-clock cutoff
  cleanup_raised       \* history: removing the checkpoint files raised

jobVars == <<urls, cookieStore, page_view, profile, browser, url_idx, results, all_matches,
             total_scanned, group_names_scraped, group_name, retval>>
s1Vars == <<all_scanned, list_items, no_new_count, scroll_count, consecutive_errors, last_pass>>
s2Vars == <<idx, s2_results, errors_in_row, last_checkpoint, checkpoint_base,
            outcomes, cutoff, faults, scrapedLoggedOut>>
vars == <<pc, jobVars, s1Vars, s2Vars, matches, loggedIn, expiredIn, timed_out, cleanup_raised,
          elapsed, files, tokens, sink>>

(* What a turn of the loop did: pass is "ok" (the extraction went through), *)
(* "destroyed" (it raised 'Execution context was destroyed'), "error" (it   *)
(* raised something else), "timeout", or "exit" when the loop condition was *)
(* false; restored: the page was back on the  *)
(* member list after the except branch; emitted: status_callback was        *)
(* called; since_check: the turns begun since the clock was last read, in a *)
(* run where they are counted (NotCounted otherwise).                       *)
NotCounted == 0 - 1
NoPass == [pass |-> "none", restored |-> FALSE, emitted |-> FALSE, since_check |-> NotCounted]

(***************************************************************************)
(* status_callback: the sink keeps the last event, how many events and how *)
(* many terminal events it received (counted up to 2), and whether an      *)
(* event before the last one was not a running event.                      *)
(***************************************************************************)
NoEvent == [status |-> "none", message |-> "", data |-> [none |-> TRUE]]
EmptySink == [n |-> 0, nTerminal |-> 0, last |-> NoEvent, earlierNotRunning |-> FALSE]

UpTo2(n) == IF n >= 2 THEN 2 ELSE n

Emit(s, status, message, data) ==
  [n |-> UpTo2(s.n + 1),
   nTerminal |-> IF status \in {"completed", "error"} THEN UpTo2(s.nTerminal + 1) ELSE s.nTerminal,
   last |-> [status |-> status, message |-> message, data |-> data],
   earlierNotRunning |-> s.earlierNotRunning \/ (s.n > 0 /\ s.last.status # "running")]

(***************************************************************************)
(* load_cookies                                                            *)
(***************************************************************************)
CookieStores == {"missing", "unreadable", "not_a_list", "empty_list", "cookies"}

LoadCookiesUnchecked(store) ==
  IF store = "missing" THEN <<>>
  ELSE IF store = "unreadable" THEN <<>>
  ELSE IF store = "empty_list" THEN <<>>
  ELSE <<"c_user", "xs">>

(* [] when the file is missing, cannot be parsed or holds no list. *)
LoadCookies(store) ==
  IF store = "missing" THEN <<>>
  ELSE IF store = "unreadable" THEN <<>>
  ELSE IF store = "not_a_list" THEN <<>>
  ELSE IF store = "empty_list" THEN <<>>
  ELSE <<"c_user", "xs">>

StoreEmptiedByLoad(store) == "empty_list"

(* open(COOKIES_FILE, 'r'): load_cookies reads the file and leaves it. *)
StoreAfterLoad(store) == store

(***************************************************************************)
(* Helpers of the pipeline.                                                *)
(***************************************************************************)
NoData == [none |-> TRUE]

(* group_name from the page title: the part before '|', or the title, or    *)
(* 'unknown_group' when the title is empty.                                 *)
GroupName(url) ==
  LET title == PageTitle(url)
  IN IF title # <<>> THEN title[1] ELSE "unknown_group"

(* A step of the pipeline that the browser can fail: it succeeds, or it     *)
(* raises while the run has seen fewer than MaxFaults such failures.        *)
MayFail == IF faults < MaxFaults THEN {TRUE, FALSE} ELSE {TRUE}

(* One readable value of the clock, not before the last one read. *)
ClockReads == {k * ClockStep : k \in 0..MaxClock}
LaterReads == {t \in ClockReads : t >= elapsed}

WriteFile(fs, name, rows) ==
  {f \in fs : f.name # name} \cup {[name |-> name, header |-> fieldnames, rows |-> rows]}

(* except Exception of the per-target try: the entry of a failed target. *)
ErrorEntry(url) == [url |-> url, error |-> "exception", matches_found |-> 0]

GroupEntry(url, name, scanned, found, file) ==
  [url |-> url, group_name |-> name, members_scanned |-> scanned,
   matches_found |-> found, file |-> file]

None == [none |-> TRUE]

NextTargetSkipping(i) == i + 2

(* for url_idx, url in enumerate(urls, 1): the target after the i-th. *)
NextTarget(i) == i + 1

(* lead['source_group'] = ', '.join(group_names_scraped), unless set. *)
WithSourceGroup(lead, names) ==
  IF "source_group" \in DOMAIN lead THEN lead
  ELSE [k \in DOMAIN lead \cup {"source_group"} |->
          IF k = "source_group" THEN names ELSE lead[k]]

(***************************************************************************)
(* scrape_facebook_group                                                   *)
(***************************************************************************)
NoCookiesMessage == "No Facebook cookies configured. Please add cookies in settings."

StartJob ==
  /\ pc = "start"
  /\ LET cookies == LoadCookies(cookieStore)
     IN IF cookies = <<>>
        THEN /\ sink' = Emit(sink, "error", NoCookiesMessage, NoData)
             /\ retval' = [success |-> FALSE, error |-> "No cookies configured"]
             /\ pc' = "returned"
        ELSE /\ pc' = "launch"
             /\ UNCHANGED <<sink, retval>>
  /\ cookieStore' = StoreAfterLoad(cookieStore)
  /\ UNCHANGED <<urls, page_view, profile, browser, url_idx, results, all_matches,
                 total_scanned, group_names_scraped, group_name,
                 s1Vars, s2Vars, matches, loggedIn, expiredIn, timed_out, cleanup_raised, elapsed, files, tokens>>

(* async_playwright, chromium.launch, new_context, add_cookies, new_page,   *)
(* route: any of them raising is caught by the outer except.                *)
LaunchBrowser ==
  /\ pc = "launch"
  /\ \E ok \in BOOLEAN :
       IF ok
       THEN /\ browser' = "open"
            /\ pc' = "url_loop"
            /\ UNCHANGED <<sink, retval>>
       ELSE /\ sink' = Emit(sink, "error", "Browser error", NoData)
            /\ retval' = [success |-> FALSE, error |-> "exception"]
            /\ pc' = "returned"
            /\ UNCHANGED browser
  /\ UNCHANGED <<urls, cookieStore, page_view, profile, url_idx, results, all_matches,
                 total_scanned, group_names_scraped, group_name,
                 s1Vars, s2Vars, matches, loggedIn, expiredIn, timed_out, cleanup_raised, elapsed, files, tokens>>

(***************************************************************************)
(* is_login_page.  A page as the probes of is_login_page find it: url is   *)
(* what page.url holds; title, form, button and content are what            *)
(* page.title(), the two page.query_selector calls and page.content() give, *)
(* or Raises when the call raises.                                          *)
(***************************************************************************)
Raises == "raises"
GroupPage == [url |-> "groups/members", title |-> "Plumbers of Austin", form |-> "none",
              button |-> "none", content |-> "members"]
LoginRedirect == [url |-> "/login", title |-> "Log in or sign up", form |-> "found",
                  button |-> "found", content |-> "Create new account"]
PageUrls == {"groups/members", "/login", "checkpoint"}
PageTitles == {"Log in or sign up", "Facebook", "Plumbers of Austin", ""}
PageViews == [url : PageUrls, title : PageTitles \cup {Raises},
              form : {"found", "none", Raises}, button : {"found", "none", Raises},
              content : {"Create new account", "members", Raises}]

(* '/login' in url or 'login.php' in url or 'checkpoint' in url *)
UrlIndicates(url) == url \in {"/login", "checkpoint"}
(* title and ('log in' in title.lower() or 'login' in title.lower() or      *)
(* 'facebook' == title.lower().strip())                                     *)
TitleIndicates(title) == title \in {"Log in or sign up", "Facebook"}
(* any(indicator in content for indicator in login_indicators) *)
ContentIndicates(content) == content = "Create new account"

IsLoginPageAnyOrder(view) ==
  \/ UrlIndicates(view.url)
  \/ TitleIndicates(view.title)
  \/ view.form = "found"
  \/ view.button = "found"
  \/ ContentIndicates(view.content)

(* The probes in the order of the code, each returning True when it         *)
(* indicates; a probe that raises ends in 'except: return False'.           *)
IsLoginPage(view) ==
  IF UrlIndicates(view.url) THEN TRUE
  ELSE IF view.title = Raises THEN FALSE
  ELSE IF TitleIndicates(view.title) THEN TRUE
  ELSE IF view.form = Raises THEN FALSE
  ELSE IF view.form = "found" THEN TRUE
  ELSE IF view.button = Raises THEN FALSE
  ELSE IF view.button = "found" THEN TRUE
  ELSE IF view.content = Raises THEN FALSE
  ELSE ContentIndicates(view.content)

(* No page probed yet. *)
NoView == [probes |-> GroupPage, checked |-> FALSE, is_login |-> FALSE]

(* is_login_page(page) called on the page that page_view holds. *)
CheckLogin ==
  /\ pc = "probe"
  /\ page_view' = [page_view EXCEPT !.checked = TRUE, !.is_login = IsLoginPage(page_view.probes)]
  /\ pc' = "probed"
  /\ UNCHANGED <<urls, cookieStore, profile, browser, url_idx, results, all_matches,
                 total_scanned, group_names_scraped, group_name, retval,
                 s1Vars, s2Vars, matches, loggedIn, expiredIn, timed_out, cleanup_raised,
                 elapsed, files, tokens, sink>>

(* The page after page.goto(url): the group's member list while the session *)
(* holds, Facebook's login page once it is gone.                            *)
PageShown(valid) == IF valid THEN GroupPage ELSE LoginRedirect

LoginMessage == "Facebook login required. Please update your cookies."

LoginRequiredContinue(s) ==
  /\ sink' = Emit(s, "error", LoginMessage, NoData)
  /\ url_idx' = NextTarget(url_idx)
  /\ pc' = "url_loop"
  /\ UNCHANGED <<browser, retval, results, group_names_scraped, group_name, s1Vars, matches>>

(* The login page was detected: the error event, browser.close(), return. *)
LoginRequired(s) ==
  /\ sink' = Emit(s, "error", LoginMessage, NoData)
  /\ browser' = "closed"
  /\ retval' = [success |-> FALSE, error |-> "Login required - cookies expired"]
  /\ pc' = "returned"
  /\ UNCHANGED <<results, url_idx, group_names_scraped, group_name, s1Vars, matches>>

(* The head of the for loop over urls, to the call of stage1_collect_links. *)
ProcessUrl ==
  /\ pc = "url_loop"
  /\ url_idx <= Len(urls)
  /\ LET url == urls[url_idx]
         s1 == Emit(sink, "running", "Processing URL", [url_progress |-> <<url_idx, Len(urls)>>])
     IN \E gotoOk \in BOOLEAN :
          IF ~gotoOk
          THEN \* page.goto raised: the per-target except
               /\ results' = Append(results, ErrorEntry(url))
               /\ sink' = Emit(s1, "running", "Error on group, continuing to next", NoData)
               /\ url_idx' = NextTarget(url_idx)
               /\ pc' = "url_loop"
               /\ UNCHANGED <<browser, retval, group_names_scraped, group_name,
                              s1Vars, matches>>
          ELSE IF IsLoginPage(PageShown(loggedIn))
          THEN \* is_login_page: the session is gone, Facebook shows its login page
               LoginRequired(s1)
          ELSE /\ group_name' = GroupName(url)
               /\ group_names_scraped' = Append(group_names_scraped, GroupName(url))
               /\ sink' = Emit(s1, "running", "Stage 1: Collecting member links", NoData)
               /\ all_scanned' = {}
               /\ list_items' = <<>>
               /\ matches' = <<>>
               /\ no_new_count' = 0
               /\ scroll_count' = 0
               /\ consecutive_errors' = 0
               /\ last_pass' = NoPass
               /\ pc' = "s1_loop"
               /\ UNCHANGED <<browser, retval, results, url_idx>>
  /\ UNCHANGED <<urls, cookieStore, page_view, profile, all_matches, total_scanned,
                 s2Vars, loggedIn, expiredIn, timed_out, cleanup_raised, elapsed, files, tokens>>

(***************************************************************************)
(* stage1_collect_links                                                    *)
(***************************************************************************)
(* is_qualified_prospect of industry_config: a keyword of the industry or a *)
(* business indicator occurs in the text.                                   *)
IndustryKeywords(industry) == IF industry = "plumbing" THEN {"plumbing contractor"} ELSE {}
BusinessIndicators == {"owner", "Works at"}
IsQualifiedProspect(name, context, industry) ==
  context \in IndustryKeywords(industry) \cup BusinessIndicators

(* len(name) < 2 or name.lower() in [...]: the names that are skipped. *)
SkippedNames == {"", "J", "See more", "View profile", "Message", "Add friend"}
ValidName(name) == ~(Len(name) <= 1 /\ (name = <<>> \/ name[1] \in SkippedNames))

(* The list items the page can show at one extraction pass: a window of the *)
(* member list, or the same member in two list items.                       *)
Members == 1..GroupSize(urls[url_idx])
MemberList == [m \in Members |-> m]
Windows ==
  {<<>>} \cup {SubSeq(MemberList, lo, hi) : lo \in Members, hi \in Members}
         \cup {<<m, m>> : m \in Members}

(* The script of page.evaluate: the list items in document order, an href   *)
(* already in its seen set left out.                                        *)
RECURSIVE ExtractFrom(_, _)
ExtractFrom(items, seen) ==
  IF items = <<>> THEN <<>>
  ELSE IF MemberHref(Head(items)) \in seen
       THEN ExtractFrom(Tail(items), seen)
       ELSE <<Head(items)>> \o ExtractFrom(Tail(items), seen \cup {MemberHref(Head(items))})

ExtractMembers(items) == ExtractFrom(items, {})

NeverSeen(href, scanned) == FALSE

(* if href in all_scanned: continue *)
AlreadySeen(href, scanned) == href \in scanned

AddMatchFirst(found, item) ==
  <<[url |-> item.href, text |-> item.name, context |-> item.context]>> \o found

(* matches.append({'url': href, 'text': name, 'context': context}) *)
AddMatch(found, item) ==
  Append(found, [url |-> item.href, text |-> item.name, context |-> item.context])

(* The for loop over members_data: acc is (all_scanned, matches, new_found). *)
RECURSIVE ProcessItems(_, _)
ProcessItems(data, acc) ==
  IF data = <<>> THEN acc
  ELSE LET item == MemberItem(Head(data))
           skip == AlreadySeen(item.href, acc.all_scanned) \/ ~ValidName(item.name)
           next == IF skip THEN acc
                   ELSE [all_scanned |-> acc.all_scanned \cup {item.href},
                         new_found |-> acc.new_found + 1,
                         matches |-> IF IsQualifiedProspect(item.name, item.context, Industry)
                                     THEN AddMatch(acc.matches, item)
                                     ELSE acc.matches]
       IN ProcessItems(Tail(data), next)

Uncapped(a, b) == a

(* min(len(all_scanned) // 50, 10) *)
Min(a, b) == IF a < b THEN a ELSE b

(* page.evaluate of the extraction can raise when the run has a failure     *)
(* left, and can go on raising once it has begun to.                        *)
ExtractMayFail ==
  IF faults < MaxFaults \/ consecutive_errors > 0 THEN {TRUE, FALSE} ELSE {TRUE}

NeverAbort(n) == FALSE

ErrorAbortBeyond(n) == n > max_consecutive_errors

(* if consecutive_errors >= max_consecutive_errors: break *)
ErrorAbort(n) == n >= max_consecutive_errors

Pass(kind, restored, emitted, checked) ==
  [pass |-> kind, restored |-> restored, emitted |-> emitted,
   since_check |-> IF last_pass.since_check = NotCounted THEN NotCounted
                   ELSE IF checked THEN 1 ELSE last_pass.since_check + 1]

(* The kinds of exception of the extraction, and whether go_back brought    *)
(* the member list back.                                                    *)
ExtractionErrors == {<<"destroyed", TRUE>>, <<"destroyed", FALSE>>, <<"error", FALSE>>}

(* consecutive_errors += 1, whatever the exception and the recovery *)
CountError(n, kind, restored) == n + 1

Stage1ProgressFirstPass(scanned, found) ==
  [members_scanned |-> 0, matches_found |-> 0, benchmark_segment |-> 0]

(* The totals of the status event of an iteration. *)
Stage1Progress(scanned, found) ==
  [members_scanned |-> Cardinality(scanned),
   matches_found |-> Len(found),
   benchmark_segment |-> Min(Cardinality(scanned) \div 50, 10)]

NoNewAlwaysReset(n, new_found) == 0

(* if new_found == 0: no_new_count += 1 else: no_new_count = 0 *)
NoNewCount(n, new_found) == IF new_found = 0 THEN n + 1 ELSE 0

Stage1ElapsedOwn(t) == 0

(* (datetime.now(timezone.utc) - start_time).total_seconds(), start_time    *)
(* being the argument start_time=start_time of the call: the job's start.   *)
Stage1Elapsed(t) == t

ClockDueAlways(n) == TRUE

(* if scroll_count % 100 == 0: the clock is read *)
ClockDue(n) == n % Stage1CheckEvery = 0

(* One turn of the while loop, or leaving it. *)
Stage1Iter ==
  /\ pc = "s1_loop"
  /\ IF ~(scroll_count < max_scrolls /\ no_new_count < NoNewLimit)
     THEN /\ pc' = "s1_ret"
          /\ last_pass' = [last_pass EXCEPT !.pass = "exit"]
          /\ UNCHANGED <<all_scanned, list_items, no_new_count, scroll_count,
                         consecutive_errors, matches, elapsed, sink, faults, timed_out>>
     ELSE LET checked == ClockDue(scroll_count)
          IN
          \E t \in (IF checked THEN LaterReads ELSE {elapsed}) :
          /\ elapsed' = t
          /\ IF checked /\ Stage1Elapsed(t) > Stage1Budget
             THEN \* Stage 1 timeout
                  /\ pc' = "s1_ret"
                  /\ timed_out' = TRUE
                  /\ last_pass' = [pass |-> "timeout", restored |-> FALSE, emitted |-> FALSE,
                                   since_check |-> last_pass.since_check]
                  /\ UNCHANGED <<all_scanned, list_items, no_new_count, scroll_count,
                                 consecutive_errors, matches, sink, faults>>
             ELSE \E extracted \in ExtractMayFail :
                  IF ~extracted
                  THEN \* page.evaluate raised; go_back is tried when the context was destroyed
                       \E e \in ExtractionErrors :
                       /\ consecutive_errors' = CountError(consecutive_errors, e[1], e[2])
                       /\ faults' = IF consecutive_errors = 0 THEN faults + 1 ELSE faults
                       /\ pc' = IF ErrorAbort(consecutive_errors') THEN "s1_ret" ELSE "s1_loop"
                       /\ last_pass' = Pass(e[1], e[2], FALSE, checked)
                       /\ UNCHANGED <<all_scanned, list_items, matches, no_new_count,
                                      scroll_count, sink, timed_out>>
                  ELSE \E window \in Windows, scrolled \in MayFail :
                       \* scrollBy raising leaves scroll_count; the scrollTo of every
                       \* fifth scroll raises after scroll_count += 1
                       \E counted \in (IF scrolled THEN {TRUE}
                                       ELSE IF (scroll_count + 1) % 5 = 0 THEN BOOLEAN
                                       ELSE {FALSE}) :
                       LET members_data == ExtractMembers(window)
                           acc == ProcessItems(members_data, [all_scanned |-> all_scanned,
                                                              matches |-> matches, new_found |-> 0])
                       IN /\ consecutive_errors' = 0
                          /\ list_items' = window
                          /\ all_scanned' = acc.all_scanned
                          /\ matches' = acc.matches
                          /\ no_new_count' = NoNewCount(no_new_count, acc.new_found)
                          /\ sink' = Emit(sink, "running", "Scanning",
                                          Stage1Progress(acc.all_scanned, acc.matches))
                          /\ scroll_count' = IF counted THEN scroll_count + 1 ELSE scroll_count
                          /\ faults' = IF scrolled THEN faults ELSE faults + 1
                          /\ last_pass' = Pass("ok", TRUE, TRUE, checked)
                          /\ pc' = "s1_loop"
                          /\ UNCHANGED timed_out
  /\ UNCHANGED <<jobVars, idx, s2_results, errors_in_row, last_checkpoint, checkpoint_base,
                 outcomes, cutoff, scrapedLoggedOut, loggedIn, expiredIn, cleanup_raised, files, tokens>>

AddScannedLast(total, scanned) == Cardinality(scanned)

(* total_scanned += len(member_links.get('all_scanned', [])) *)
AddScanned(total, scanned) == total + Cardinality(scanned)

(* Back in scrape_facebook_group: from the return of stage 1 to the call of *)
(* stage2_deep_scrape, or to the next target when nothing matched.          *)
AfterStage1 ==
  /\ pc = "s1_ret"
  /\ total_scanned' = AddScanned(total_scanned, all_scanned)
  /\ IF matches # <<>>
     THEN /\ sink' = Emit(sink, "running", "Stage 2: Deep scraping", [total |-> Len(matches)])
          /\ idx' = 0
          /\ s2_results' = <<>>
          /\ errors_in_row' = 0
          /\ last_checkpoint' = 0
          /\ checkpoint_base' = [industry |-> Industry, group |-> group_name, suffix |-> tokens + 1]
          /\ tokens' = tokens + 1
          /\ outcomes' = <<>>
          /\ cutoff' = FALSE
          /\ pc' = "s2_loop"
          /\ UNCHANGED <<results, url_idx>>
     ELSE /\ results' = Append(results, GroupEntry(urls[url_idx], group_name,
                                                   Cardinality(all_scanned), 0, None))
          /\ sink' = Emit(sink, "running", "Completed group (0 leads)", NoData)
          /\ url_idx' = NextTarget(url_idx)
          /\ pc' = "url_loop"
          /\ UNCHANGED <<idx, s2_results, errors_in_row, last_checkpoint, checkpoint_base,
                         tokens, outcomes, cutoff>>
  \* the locals of stage1_collect_links are gone with its return; member_links
  \* keeps all_scanned and matches
  /\ list_items' = <<>>
  /\ no_new_count' = 0
  /\ scroll_count' = 0
  /\ consecutive_errors' = 0
  /\ last_pass' = NoPass
  /\ UNCHANGED <<urls, cookieStore, page_view, profile, browser, all_matches, group_names_scraped, group_name,
                 retval, all_scanned, matches, loggedIn, expiredIn, timed_out, cleanup_raised, elapsed, files, faults,
                 scrapedLoggedOut>>

(***************************************************************************)
(* scrape_single_profile and stage2_deep_scrape                            *)
(***************************************************************************)
(* match.get('text', '').split('\n')[0] *)
FirstLine(text) == IF text = <<>> THEN "" ELSE text[1]

(* /user/(\d+) in the url gives profile.php?id=<digits>; any other url is kept. *)
ProfileUrl(url) == IF url.form = "user" THEN [form |-> "profile", id |-> url.id] ELSE url

(***************************************************************************)
(* The phone part of the extraction script (page.evaluate).  The text of   *)
(* the profile page is taken by what text.match(pattern) gives for each of *)
(* the eleven phonePatterns, in the order of the list: the digits of       *)
(* match[0] (rawPhone.replace(/\D/g, '')), or NoMatch.                      *)
(***************************************************************************)
NoMatch == <<>>
PhonePatterns == 1..11
FixedFormats == 1..4       \* 555-555-5555, (555) 555-5555, 555 555 5555, 5555555555
CountryFormats == 5..6     \* +1-555-555-5555, 1-555-555-5555
LabelFormats == 7..11      \* Mobile, Phone, Call, Contact, Tel: \d[\d\s.-]+\d

NumberA == <<"5", "5", "5", "1", "2", "3", "4", "5", "6", "7">>
NumberB == <<"2", "1", "2", "9", "8", "7", "6", "5", "4", "3">>
ShortNumber == <<"5", "5", "5", "1", "2", "3", "4">>

(* The digits a match of pattern p can hold: ten for the fixed formats, a 1 *)
(* and ten for the country formats, two or more for the labelled ones.      *)
MatchDigits(p) ==
  IF p \in FixedFormats THEN {NumberA, NumberB}
  ELSE IF p \in CountryFormats THEN {<<"1">> \o NumberA, <<"1">> \o NumberB}
  ELSE {ShortNumber, NumberA, <<"1">> \o NumberB, <<"4", "4">> \o NumberA,
        <<"9">> \o NumberB}

NoText == [p \in PhonePatterns |-> NoMatch]

(* The texts in which at most n of the patterns match. *)
RECURSIVE TextsUpTo(_)
TextsUpTo(n) ==
  IF n = 0 THEN {NoText}
  ELSE LET fewer == TextsUpTo(n - 1)
       IN fewer \cup UNION {UNION {{[text EXCEPT ![p] = d] : d \in MatchDigits(p)} :
                                     p \in PhonePatterns} : text \in fewer}

ProfileTexts == TextsUpTo(MaxPhoneMatches)

(* digits.slice(0,3) + '-' + digits.slice(3,6) + '-' + digits.slice(6) *)
Dashed(digits) ==
  SubSeq(digits, 1, 3) \o <<"-">> \o SubSeq(digits, 4, 6) \o <<"-">> \o SubSeq(digits, 7, Len(digits))

FirstTen(digits) == SubSeq(digits, 1, 10)

(* digits.slice(-10) *)
LastTen(digits) == SubSeq(digits, Len(digits) - 9, Len(digits))

(* One of the three branches sets phone and breaks. *)
PhoneUsable(digits) == Len(digits) >= 10

FormatPhone(digits) ==
  IF Len(digits) = 10 THEN Dashed(digits)
  ELSE IF Len(digits) = 11 /\ digits[1] = "1" THEN Dashed(SubSeq(digits, 2, 11))
  ELSE Dashed(LastTen(digits))

(* for (const pattern of phonePatterns), from pattern p on; phone stays ''  *)
(* when the loop ends without a break.                                      *)
RECURSIVE PhoneFrom(_, _)
PhoneFrom(text, p) ==
  IF p \notin PhonePatterns THEN <<>>
  ELSE IF text[p] # NoMatch /\ PhoneUsable(text[p]) THEN FormatPhone(text[p])
  ELSE PhoneFrom(text, p + 1)

ExtractedPhone(text) == PhoneFrom(text, 1)

(* No profile page read yet. *)
NoProfile == [text |-> NoText, done |-> FALSE, phone |-> <<>>]

(* page.evaluate of the extraction script, and phone = extracted.get('phone', '') *)
ExtractProfile ==
  /\ pc = "extract"
  /\ profile' = [profile EXCEPT !.done = TRUE, !.phone = ExtractedPhone(profile.text)]
  /\ pc' = "extracted"
  /\ UNCHANGED <<urls, cookieStore, page_view, browser, url_idx, results, all_matches,
                 total_scanned, group_names_scraped, group_name, retval,
                 s1Vars, s2Vars, matches, loggedIn, expiredIn, timed_out, cleanup_raised,
                 elapsed, files, tokens, sink>>

ScrapeOutcomes == {"ok", "timeout", "error"}

(* original_url = match['url'] stands before the try: a candidate without   *)
(* a url makes scrape_single_profile raise KeyError.                        *)
ScrapeRaises(match) == "url" \notin DOMAIN match

(* The record of one candidate.  goto or evaluate raising (a timeout, any   *)
(* other exception) is caught inside: phone, website and about keep their   *)
(* initial ''.                                                              *)
ScrapeSingleProfile(match, outcome) ==
  LET ok == outcome = "ok"
      website == IF ok THEN PageWebsite(match.url.id) ELSE ""
  IN [name |-> FirstLine(match.text), url |-> ProfileUrl(match.url),
      phone |-> IF ok THEN PagePhone(match.url.id) ELSE "", website |-> website,
      has_website |-> IF Truthy(website) THEN "Yes" ELSE "No",
      about |-> IF ok THEN PageAbout(match.url.id) ELSE "", work |-> ""]

Stage2AppendOnSuccess(res, result, outcome) ==
  IF outcome = "ok" THEN Append(res, result) ELSE res

Stage2Prepend(res, result, outcome) == <<result>> \o res

(* results.append(result) *)
Stage2Append(res, result, outcome) == Append(res, result)

DroppedAtCutoff(res) == <<>>

(* break: results stays as it is and is returned. *)
KeptAtCutoff(res) == res

CheckpointWithoutFirst(res, last) == Tail(res)

(* save_to_csv(results.copy(), checkpoint_path) *)
CheckpointData(res, last) == res

MarkMovedOnFailedWrite(last, n) == n

(* save_to_csv raised: 'last_checkpoint = len(results)' is not reached. *)
MarkAfterFailedWrite(last, n) == last

CheckpointDueLate == Len(s2_results) > 0 /\ Len(s2_results) - last_checkpoint > checkpoint_interval

(* if len(results) > 0 and len(results) - last_checkpoint >= checkpoint_interval *)
CheckpointDue == Len(s2_results) > 0 /\ Len(s2_results) - last_checkpoint >= checkpoint_interval

(* The checkpoint file's name; the time of the write stands in the name,    *)
(* and the number of results then stands for that time.                     *)
CheckpointName == [kind |-> "checkpoint", base |-> checkpoint_base, stamp |-> Len(s2_results)]

(* One turn of the for loop over matches.  scrape_single_profile raises     *)
(* nothing for a candidate of stage 1, which has a url, so then the except  *)
(* of the loop is not entered and errors_in_row stays 0.                    *)
Stage2Iter ==
  /\ pc = "s2_loop"
  /\ idx < Len(matches)
  /\ \E t \in (IF idx % Stage2CheckEvery = 0 THEN LaterReads ELSE {elapsed}) :
       /\ elapsed' = t
       /\ IF idx % Stage2CheckEvery = 0 /\ t > Stage2Budget
          THEN \* Stage 2 timeout
               /\ cutoff' = TRUE
               /\ timed_out' = TRUE
               /\ pc' = "s2_done"
               /\ s2_results' = KeptAtCutoff(s2_results)
               /\ UNCHANGED <<idx, errors_in_row, last_checkpoint, outcomes,
                              faults, scrapedLoggedOut, files, sink>>
          ELSE \E saved \in (IF CheckpointDue THEN BOOLEAN ELSE {FALSE}),
                  outcome \in (IF ScrapeRaises(matches[idx + 1]) THEN {"raised"}
                               ELSE IF FALSE \in MayFail THEN ScrapeOutcomes ELSE {"ok"}),
                  reloaded \in BOOLEAN :
               LET s1 == IF idx % Stage2StatusEvery = 0
                         THEN Emit(sink, "running", "Deep scraping", [progress |-> <<idx + 1, Len(matches)>>])
                         ELSE sink
                   result == ScrapeSingleProfile(matches[idx + 1], outcome)
               IN /\ (reloaded \/ (outcome = "raised" /\ errors_in_row + 1 >= max_errors))
                  /\ files' = IF saved
                              THEN WriteFile(files, CheckpointName,
                                             CsvRows(CheckpointData(s2_results, last_checkpoint)))
                              ELSE files
                  /\ last_checkpoint' = IF saved THEN Len(s2_results)
                                         ELSE IF CheckpointDue
                                         THEN MarkAfterFailedWrite(last_checkpoint, Len(s2_results))
                                         ELSE last_checkpoint
                  /\ sink' = IF saved
                             THEN Emit(s1, "running", "Checkpoint saved",
                                       [checkpoint_file |-> CheckpointName,
                                        checkpoint_count |-> Len(s2_results)])
                             ELSE s1
                  /\ IF outcome = "raised"
                     THEN \* except Exception: no record; page.reload() after max_errors
                          \* errors in a row, which resets the count unless it raises
                          /\ errors_in_row' = IF errors_in_row + 1 >= max_errors /\ reloaded
                                              THEN 0 ELSE errors_in_row + 1
                          /\ UNCHANGED s2_results
                     ELSE /\ s2_results' = Stage2Append(s2_results, result, outcome)
                          /\ errors_in_row' = 0
                  /\ outcomes' = Append(outcomes, outcome)
                  /\ faults' = IF outcome \in {"ok", "raised"} THEN faults ELSE faults + 1
                  /\ scrapedLoggedOut' = (scrapedLoggedOut \/ ~loggedIn)
                  /\ idx' = idx + 1
                  /\ pc' = "s2_loop"
                  /\ UNCHANGED <<cutoff, timed_out>>
  /\ UNCHANGED <<jobVars, s1Vars, matches, checkpoint_base, loggedIn, expiredIn, cleanup_raised, tokens>>

Stage2Over == pc = "s2_done" \/ (pc = "s2_loop" /\ idx >= Len(matches))

AnyCheckpoints == {f \in files : f.name.kind = "checkpoint"}

(* glob.glob(f"{checkpoint_base}_checkpoint_*.csv") *)
MyCheckpoints == {f \in files : f.name.kind = "checkpoint" /\ f.name.base = checkpoint_base}

CleanupNever(n, total) == FALSE

CleanupAlways(n, total) == TRUE

(* if len(results) == total *)
CleanupDue(n, total) == n = total

(* After the loop: the checkpoint files of this run are removed when there  *)
(* is a result for every candidate; glob or os.remove raising is passed     *)
(* over, which leaves the files not yet removed.                            *)
Stage2Finish ==
  /\ Stage2Over
  /\ IF CleanupDue(Len(s2_results), Len(matches))
     THEN \E left \in SUBSET MyCheckpoints :
            /\ files' = (files \ MyCheckpoints) \cup left
            /\ cleanup_raised' = (cleanup_raised \/ left # {})
     ELSE UNCHANGED <<files, cleanup_raised>>
  /\ pc' = "s2_ret"
  /\ UNCHANGED <<jobVars, s1Vars, s2Vars, matches, loggedIn, expiredIn, timed_out, elapsed, tokens, sink>>

ExportName(kind, groups, suffix) ==
  [kind |-> kind, industry |-> Industry, groups |-> groups, suffix |-> suffix]

ExtendReplacing(leads, scraped_data) == scraped_data

(* all_matches.extend(scraped_data) *)
Extend(leads, scraped_data) == leads \o scraped_data

ExportsEveryTarget(n) == TRUE

(* if len(urls) == 1: the target's own file is written only for a job of    *)
(* one target.                                                              *)
ExportsPerTarget(n) == n = 1

(* Back in scrape_facebook_group: from the return of stage 2 to the end of  *)
(* the loop body.  save_to_csv raising is caught by the per-target except.  *)
AfterStage2 ==
  /\ pc = "s2_ret"
  /\ all_matches' = Extend(all_matches, s2_results)
  /\ LET url == urls[url_idx]
         name == ExportName("single", <<group_name>>, tokens + 1)
         done == Emit(sink, "running", "Completed group",
                      [groups_completed |-> url_idx, total_groups |-> Len(urls),
                       total_matches |-> Len(all_matches) + Len(s2_results),
                       total_scanned |-> total_scanned])
     IN IF ExportsPerTarget(Len(urls)) /\ s2_results # <<>>
        THEN \E written \in BOOLEAN :
             IF written
             THEN /\ files' = WriteFile(files, name, CsvRows(s2_results))
                  /\ tokens' = tokens + 1
                  /\ results' = Append(results, GroupEntry(url, group_name, Cardinality(all_scanned),
                                                           Len(s2_results), name))
                  /\ sink' = done
             ELSE /\ tokens' = tokens + 1
                  /\ results' = Append(results, ErrorEntry(url))
                  /\ sink' = Emit(sink, "running", "Error on group, continuing to next", NoData)
                  /\ UNCHANGED files
        ELSE /\ results' = Append(results, GroupEntry(url, group_name, Cardinality(all_scanned),
                                                      Len(s2_results), None))
             /\ sink' = done
             /\ UNCHANGED <<files, tokens>>
  /\ url_idx' = NextTarget(url_idx)
  /\ pc' = "url_loop"
  /\ UNCHANGED <<urls, cookieStore, page_view, profile, browser, total_scanned, group_names_scraped, group_name,
                 retval, s1Vars, s2Vars, matches, loggedIn, expiredIn, timed_out, cleanup_raised, elapsed>>

(* The loop over urls is through: browser.close(). *)
CloseBrowser ==
  /\ pc = "url_loop"
  /\ url_idx > Len(urls)
  /\ browser' = "closed"
  /\ pc' = "export"
  /\ UNCHANGED <<urls, cookieStore, page_view, profile, url_idx, results, all_matches, total_scanned,
                 group_names_scraped, group_name, retval,
                 s1Vars, s2Vars, matches, loggedIn, expiredIn, timed_out, cleanup_raised, elapsed, files, tokens, sink>>

(* The combined CSV, the completed event and the return.  save_to_csv is    *)
(* called outside every try: when it raises, the exception leaves           *)
(* scrape_facebook_group.                                                   *)
ExportCombined ==
  /\ pc = "export"
  /\ IF all_matches # <<>> /\ Len(group_names_scraped) > 0
     THEN LET name == ExportName("combined", group_names_scraped, tokens + 1)
              leads == [i \in 1..Len(all_matches) |->
                          WithSourceGroup(all_matches[i], group_names_scraped)]
          IN /\ all_matches' = leads
             /\ tokens' = tokens + 1
             /\ \E written \in BOOLEAN :
                  IF written
                  THEN /\ files' = WriteFile(files, name, CsvRows(leads))
                       /\ sink' = Emit(sink, "completed", "Completed!",
                                       [total_matches |-> Len(all_matches),
                                        total_scanned |-> total_scanned,
                                        groups_scraped |-> group_names_scraped,
                                        combined_file |-> name])
                       /\ retval' = [success |-> TRUE, results |-> results,
                                     total_matches |-> Len(all_matches),
                                     total_scanned |-> total_scanned,
                                     groups_scraped |-> group_names_scraped,
                                     combined_file |-> name]
                       /\ pc' = "returned"
                  ELSE /\ pc' = "raised"
                       /\ UNCHANGED <<files, sink, retval>>
     ELSE /\ sink' = Emit(sink, "completed", "Completed!",
                          [total_matches |-> Len(all_matches),
                           total_scanned |-> total_scanned,
                           groups_scraped |-> group_names_scraped,
                           combined_file |-> None])
          /\ retval' = [success |-> TRUE, results |-> results,
                        total_matches |-> Len(all_matches),
                        total_scanned |-> total_scanned,
                        groups_scraped |-> group_names_scraped,
                        combined_file |-> None]
          /\ pc' = "returned"
          /\ UNCHANGED <<all_matches, tokens, files>>
  /\ UNCHANGED <<urls, cookieStore, page_view, profile, browser, url_idx, results, total_scanned,
                 group_names_scraped, group_name,
                 s1Vars, s2Vars, matches, loggedIn, expiredIn, timed_out, cleanup_raised, elapsed>>

(***************************************************************************)
(* The environment: the session expires while the job runs.                *)
(***************************************************************************)
SessionExpires ==
  /\ pc \in {"url_loop", "s1_loop", "s2_loop"}
  /\ loggedIn
  /\ loggedIn' = FALSE
  /\ expiredIn' = pc
  /\ UNCHANGED <<pc, jobVars, s1Vars, s2Vars, matches, elapsed, files, tokens, sink,
                 timed_out, cleanup_raised>>

(***************************************************************************)
(* The job: scrape_facebook_group called with any targets, any cookie      *)
(* store and a session that is valid or not.                               *)
(***************************************************************************)
NoRetval == [none |-> TRUE]

InitLocals ==
  /\ browser = "none"
  /\ url_idx = 1
  /\ results = <<>>
  /\ total_scanned = 0
  /\ group_names_scraped = <<>>
  /\ group_name = "unknown_group"
  /\ retval = NoRetval
  /\ files = {}
  /\ tokens = 0
  /\ sink = EmptySink
  /\ all_scanned = {}
  /\ list_items = <<>>
  /\ no_new_count = 0
  /\ scroll_count = 0
  /\ consecutive_errors = 0
  /\ last_pass = NoPass
  /\ idx = 0
  /\ s2_results = <<>>
  /\ errors_in_row = 0
  /\ last_checkpoint = 0
  /\ checkpoint_base = [industry |-> Industry, group |-> "unknown_group", suffix |-> 0]
  /\ outcomes = <<>>
  /\ cutoff = FALSE
  /\ faults = 0
  /\ timed_out = FALSE
  /\ cleanup_raised = FALSE
  /\ scrapedLoggedOut = FALSE
  /\ elapsed = 0

Init ==
  /\ pc = "start"
  /\ urls \in SeqsUpTo(Targets, MaxUrls)
  /\ cookieStore \in CookieStores
  /\ page_view = NoView
  /\ profile = NoProfile
  /\ loggedIn \in BOOLEAN
  /\ expiredIn = (IF loggedIn THEN "never" ELSE "start")
  /\ all_matches = <<>>
  /\ matches = <<>>
  /\ InitLocals

Next ==
  \/ StartJob
  \/ LaunchBrowser
  \/ ProcessUrl
  \/ Stage1Iter
  \/ AfterStage1
  \/ Stage2Iter
  \/ Stage2Finish
  \/ AfterStage2
  \/ CloseBrowser
  \/ ExportCombined
  \/ SessionExpires

Spec == Init /\ [][Next]_vars

(***************************************************************************)
(* The start endpoint of the API (POST /api/scraper/start), which creates  *)
(* the job: it answers 400 to an empty url list and to a cookie store that *)
(* is not configured, and else starts scrape_facebook_group.               *)
(***************************************************************************)
(* cookies_exist: the file holds a non-empty list. *)
CookiesExist(store) == store = "cookies"

StartScrapeUnvalidated ==
  /\ pc = "api"
  /\ IF ~CookiesExist(cookieStore)
     THEN /\ pc' = "rejected"
          /\ retval' = [status_code |-> 400, detail |-> "cookies not configured"]
     ELSE /\ pc' = "start"
          /\ UNCHANGED retval
  /\ UNCHANGED <<urls, cookieStore, page_view, profile, browser, url_idx, results, all_matches,
                 total_scanned, group_names_scraped, group_name,
                 s1Vars, s2Vars, matches, loggedIn, expiredIn, timed_out, cleanup_raised, elapsed, files, tokens, sink>>

StartScrape ==
  /\ pc = "api"
  /\ IF urls = <<>>
     THEN /\ pc' = "rejected"
          /\ retval' = [status_code |-> 400, detail |-> "no urls provided"]
     ELSE IF ~CookiesExist(cookieStore)
     THEN /\ pc' = "rejected"
          /\ retval' = [status_code |-> 400, detail |-> "cookies not configured"]
     ELSE /\ pc' = "start"
          /\ UNCHANGED retval
  /\ UNCHANGED <<urls, cookieStore, page_view, profile, browser, url_idx, results, all_matches,
                 total_scanned, group_names_scraped, group_name,
                 s1Vars, s2Vars, matches, loggedIn, expiredIn, timed_out, cleanup_raised, elapsed, files, tokens, sink>>

InitApi ==
  /\ pc = "api"
  /\ urls \in SeqsUpTo(Targets, MaxUrls)
  /\ cookieStore \in CookieStores
  /\ page_view = NoView
  /\ profile = NoProfile
  /\ loggedIn \in BOOLEAN
  /\ expiredIn = (IF loggedIn THEN "never" ELSE "start")
  /\ all_matches = <<>>
  /\ matches = <<>>
  /\ InitLocals

NextApi == StartScrape \/ Next

SpecApi == InitApi /\ [][NextApi]_vars

(***************************************************************************)
(* The job on a long member list: besides the runs of Spec, the runs of a  *)
(* job on one target that stands at the call of stage2_deep_scrape, after  *)
(* stage 1 has scanned MaxCandidates members and matched them all.         *)
(***************************************************************************)
InitLong ==
  /\ pc = "s2_loop"
  /\ urls = <<"g1">>
  /\ cookieStore = "cookies"
  /\ page_view = NoView
  /\ profile = NoProfile
  /\ loggedIn = TRUE
  /\ expiredIn = "never"
  /\ browser = "open"
  /\ url_idx = 1
  /\ results = <<>>
  /\ all_matches = <<>>
  /\ total_scanned = MaxCandidates
  /\ group_names_scraped = <<GroupName("g1")>>
  /\ group_name = GroupName("g1")
  /\ retval = NoRetval
  /\ files = {}
  /\ tokens = 1
  /\ sink = Emit(Emit(EmptySink, "running", "Stage 1: Collecting member links", NoData),
                 "running", "Stage 2: Deep scraping", [total |-> MaxCandidates])
  /\ all_scanned = {MemberHref(m) : m \in 1..MaxCandidates}
  /\ list_items = <<>>
  /\ no_new_count = 0
  /\ scroll_count = 0
  /\ consecutive_errors = 0
  /\ last_pass = NoPass
  /\ matches = [i \in 1..MaxCandidates |-> Candidate(i)]
  /\ idx = 0
  /\ s2_results = <<>>
  /\ errors_in_row = 0
  /\ last_checkpoint = 0
  /\ checkpoint_base = [industry |-> Industry, group |-> GroupName("g1"), suffix |-> 1]
  /\ outcomes = <<>>
  /\ cutoff = FALSE
  /\ faults = 0
  /\ timed_out = FALSE
  /\ cleanup_raised = FALSE
  /\ scrapedLoggedOut = FALSE
  /\ elapsed = 0

SpecLong == (Init \/ InitLong) /\ [][Next]_vars

(***************************************************************************)
(* stage1_collect_links on its own, on the member list of one target; the  *)
(* event loop runs the coroutine on whenever it can go on.                 *)
(***************************************************************************)
InitStage1 ==
  /\ pc = "s1_loop"
  /\ urls = <<"g1">>
  /\ cookieStore = "cookies"
  /\ page_view = NoView
  /\ profile = NoProfile
  /\ loggedIn = TRUE
  /\ expiredIn = "never"
  /\ all_matches = <<>>
  /\ matches = <<>>
  /\ InitLocals

NextStage1 == Stage1Iter

(* Stage 1 on the member list of a group of MaxListed members, the page     *)
(* answering (no page fault is left to happen).                             *)
InitStage1Wide ==
  /\ pc = "s1_loop"
  /\ urls = <<"g3">>
  /\ cookieStore = "cookies"
  /\ page_view = NoView
  /\ profile = NoProfile
  /\ loggedIn = TRUE
  /\ expiredIn = "never"
  /\ all_matches = <<>>
  /\ matches = <<>>
  /\ browser = "none"
  /\ url_idx = 1
  /\ results = <<>>
  /\ total_scanned = 0
  /\ group_names_scraped = <<>>
  /\ group_name = "unknown_group"
  /\ retval = NoRetval
  /\ files = {}
  /\ tokens = 0
  /\ sink = EmptySink
  /\ all_scanned = {}
  /\ list_items = <<>>
  /\ no_new_count = 0
  /\ scroll_count = 0
  /\ consecutive_errors = 0
  /\ last_pass = NoPass
  /\ idx = 0
  /\ s2_results = <<>>
  /\ errors_in_row = 0
  /\ last_checkpoint = 0
  /\ checkpoint_base = [industry |-> Industry, group |-> "unknown_group", suffix |-> 0]
  /\ outcomes = <<>>
  /\ cutoff = FALSE
  /\ faults = MaxFaults
  /\ timed_out = FALSE
  /\ cleanup_raised = FALSE
  /\ scrapedLoggedOut = FALSE
  /\ elapsed = 0

SpecStage1Wide == InitStage1Wide /\ [][NextStage1]_vars

(* Stage 1 far into the member list of a group of MaxScanned members: the   *)
(* last member was found at the pass before, after LateScrolls scrolls that *)
(* all went through; the clock was read at the first pass only, and the     *)
(* passes since are counted.                                                *)
LateScrolls == Stage1CheckEvery - MaxScanned

InitStage1Late ==
  /\ pc = "s1_loop"
  /\ urls = <<"g5">>
  /\ cookieStore = "cookies"
  /\ page_view = NoView
  /\ profile = NoProfile
  /\ loggedIn = TRUE
  /\ expiredIn = "never"
  /\ all_matches = <<>>
  /\ matches = SelectSeq([m \in 1..MaxScanned |-> Candidate(m)],
                         LAMBDA c : IsQualifiedProspect(c.text, c.context, Industry))
  /\ browser = "none"
  /\ url_idx = 1
  /\ results = <<>>
  /\ total_scanned = 0
  /\ group_names_scraped = <<>>
  /\ group_name = "unknown_group"
  /\ retval = NoRetval
  /\ files = {}
  /\ tokens = 0
  /\ all_scanned = {MemberHref(m) : m \in 1..MaxScanned}
  /\ sink = Emit(Emit(EmptySink, "running", "Scanning", Stage1Progress({}, <<>>)),
                 "running", "Scanning", Stage1Progress(all_scanned, matches))
  /\ list_items = <<MaxScanned>>
  /\ no_new_count = 0
  /\ scroll_count = LateScrolls
  /\ consecutive_errors = 0
  /\ last_pass = [pass |-> "ok", restored |-> TRUE, emitted |-> TRUE, since_check |-> LateScrolls]
  /\ idx = 0
  /\ s2_results = <<>>
  /\ errors_in_row = 0
  /\ last_checkpoint = 0
  /\ checkpoint_base = [industry |-> Industry, group |-> "unknown_group", suffix |-> 0]
  /\ outcomes = <<>>
  /\ cutoff = FALSE
  /\ faults = 0
  /\ timed_out = FALSE
  /\ cleanup_raised = FALSE
  /\ scrapedLoggedOut = FALSE
  /\ elapsed = 0

SpecStage1Late == InitStage1Late /\ [][NextStage1]_vars

(* Stage 1 well into a large group: the members scanned so far have left    *)
(* the list (Facebook keeps only the last items in the page), none of them  *)
(* qualified, and the list now shows the members of g1.                     *)
EarlierMembers == {12 * k + c : k \in 1..MaxEarlierBlocks, c \in {3, 6, 9}}

InitStage1Big ==
  /\ pc = "s1_loop"
  /\ urls = <<"g1">>
  /\ cookieStore = "cookies"
  /\ page_view = NoView
  /\ profile = NoProfile
  /\ loggedIn = TRUE
  /\ expiredIn = "never"
  /\ all_matches = <<>>
  /\ matches = <<>>
  /\ browser = "none"
  /\ url_idx = 1
  /\ results = <<>>
  /\ total_scanned = 0
  /\ group_names_scraped = <<>>
  /\ group_name = "unknown_group"
  /\ retval = NoRetval
  /\ files = {}
  /\ tokens = 0
  /\ all_scanned = {MemberHref(m) : m \in EarlierMembers}
  /\ sink = Emit(Emit(EmptySink, "running", "Scanning", Stage1Progress({}, <<>>)),
                 "running", "Scanning", Stage1Progress(all_scanned, matches))
  /\ list_items = <<>>
  /\ no_new_count = 0
  /\ scroll_count = Stage1CheckEvery + 1
  /\ consecutive_errors = 0
  /\ last_pass = [pass |-> "ok", restored |-> TRUE, emitted |-> TRUE, since_check |-> NotCounted]
  /\ idx = 0
  /\ s2_results = <<>>
  /\ errors_in_row = 0
  /\ last_checkpoint = 0
  /\ checkpoint_base = [industry |-> Industry, group |-> "unknown_group", suffix |-> 0]
  /\ outcomes = <<>>
  /\ cutoff = FALSE
  /\ faults = 0
  /\ timed_out = FALSE
  /\ cleanup_raised = FALSE
  /\ scrapedLoggedOut = FALSE
  /\ elapsed = 0

SpecStage1Big == InitStage1Big /\ [][NextStage1]_vars

SpecStage1 == InitStage1 /\ [][NextStage1]_vars

FairStage1 == SpecStage1 /\ WF_vars(Stage1Iter)

(***************************************************************************)
(* stage2_deep_scrape on its own, called with any list of candidates.      *)
(***************************************************************************)
InitStage2 ==
  /\ pc = "s2_loop"
  /\ urls = <<"g1">>
  /\ cookieStore = "cookies"
  /\ page_view = NoView
  /\ profile = NoProfile
  /\ loggedIn = TRUE
  /\ expiredIn = "never"
  /\ all_matches = <<>>
  /\ \E n \in 0..MaxCandidates : matches = [i \in 1..n |-> Candidate(i)]
  /\ InitLocals

NextStage2 == Stage2Iter \/ Stage2Finish

(* Stage 2 over a list long enough for several checkpoints: one candidate  *)
(* more than a multiple of checkpoint_interval.  The profile pages all      *)
(* answer here (no page fault is left to happen); the clock and the writes  *)
(* and removals of files stay free.                                         *)
InitStage2Long ==
  /\ pc = "s2_loop"
  /\ urls = <<"g1">>
  /\ cookieStore = "cookies"
  /\ page_view = NoView
  /\ profile = NoProfile
  /\ loggedIn = TRUE
  /\ expiredIn = "never"
  /\ all_matches = <<>>
  /\ \E k \in 1..MaxCheckpoints :
       matches = [i \in 1..(k * checkpoint_interval + 1) |-> Candidate(i)]
  /\ browser = "none"
  /\ url_idx = 1
  /\ results = <<>>
  /\ total_scanned = 0
  /\ group_names_scraped = <<>>
  /\ group_name = "unknown_group"
  /\ retval = NoRetval
  /\ files = {}
  /\ tokens = 0
  /\ sink = EmptySink
  /\ all_scanned = {}
  /\ list_items = <<>>
  /\ no_new_count = 0
  /\ scroll_count = 0
  /\ consecutive_errors = 0
  /\ last_pass = NoPass
  /\ idx = 0
  /\ s2_results = <<>>
  /\ errors_in_row = 0
  /\ last_checkpoint = 0
  /\ checkpoint_base = [industry |-> Industry, group |-> "unknown_group", suffix |-> 0]
  /\ outcomes = <<>>
  /\ cutoff = FALSE
  /\ faults = MaxFaults
  /\ timed_out = FALSE
  /\ cleanup_raised = FALSE
  /\ scrapedLoggedOut = FALSE
  /\ elapsed = 0

SpecStage2Long == InitStage2Long /\ [][NextStage2]_vars

(* Stage 2 in a directory that other runs have used: a checkpoint file of  *)
(* an earlier run for the same industry and group, which drew another      *)
(* random suffix, a checkpoint of a run for another group, and the final   *)
(* exports of earlier jobs.                                                *)
OtherSuffix == 7
OtherRunsFiles ==
  {[name |-> [kind |-> "checkpoint",
              base |-> [industry |-> Industry, group |-> "unknown_group", suffix |-> OtherSuffix],
              stamp |-> checkpoint_interval],
    header |-> fieldnames, rows |-> <<>>],
   [name |-> [kind |-> "checkpoint",
              base |-> [industry |-> Industry, group |-> "Plumbers", suffix |-> OtherSuffix + 1],
              stamp |-> checkpoint_interval],
    header |-> fieldnames, rows |-> <<>>],
   [name |-> ExportName("single", <<"unknown_group">>, OtherSuffix + 2),
    header |-> fieldnames, rows |-> <<>>],
   [name |-> ExportName("combined", <<"unknown_group", "Plumbers">>, OtherSuffix + 3),
    header |-> fieldnames, rows |-> <<>>]}

InitStage2Shared ==
  /\ pc = "s2_loop"
  /\ urls = <<"g1">>
  /\ cookieStore = "cookies"
  /\ page_view = NoView
  /\ profile = NoProfile
  /\ loggedIn = TRUE
  /\ expiredIn = "never"
  /\ all_matches = <<>>
  /\ \E k \in 1..MaxCheckpoints :
       matches = [i \in 1..(k * checkpoint_interval + 1) |-> Candidate(i)]
  /\ browser = "none"
  /\ url_idx = 1
  /\ results = <<>>
  /\ total_scanned = 0
  /\ group_names_scraped = <<>>
  /\ group_name = "unknown_group"
  /\ retval = NoRetval
  /\ files = OtherRunsFiles
  /\ tokens = 0
  /\ sink = EmptySink
  /\ all_scanned = {}
  /\ list_items = <<>>
  /\ no_new_count = 0
  /\ scroll_count = 0
  /\ consecutive_errors = 0
  /\ last_pass = NoPass
  /\ idx = 0
  /\ s2_results = <<>>
  /\ errors_in_row = 0
  /\ last_checkpoint = 0
  /\ checkpoint_base = [industry |-> Industry, group |-> "unknown_group", suffix |-> 0]
  /\ outcomes = <<>>
  /\ cutoff = FALSE
  /\ faults = MaxFaults
  /\ timed_out = FALSE
  /\ cleanup_raised = FALSE
  /\ scrapedLoggedOut = FALSE
  /\ elapsed = 0

SpecStage2Shared == InitStage2Shared /\ [][NextStage2]_vars

SpecStage2 == InitStage2 /\ [][NextStage2]_vars

(***************************************************************************)
(* stage2_deep_scrape called with any list of dicts (matches: List[Dict]): *)
(* candidates as stage 1 makes them, and dicts that have no 'url'.         *)
(***************************************************************************)
NoUrlCandidate == [text |-> <<"Bob">>, context |-> "owner"]

InitStage2Any ==
  /\ pc = "s2_loop"
  /\ urls = <<"g1">>
  /\ cookieStore = "cookies"
  /\ page_view = NoView
  /\ profile = NoProfile
  /\ loggedIn = TRUE
  /\ expiredIn = "never"
  /\ all_matches = <<>>
  /\ matches \in SeqsUpTo({Candidate(1), NoUrlCandidate}, MaxDicts)
  /\ InitLocals

SpecStage2Any == InitStage2Any /\ [][NextStage2]_vars

(***************************************************************************)
(* The export on its own: save_to_csv called, as at the end of the job,    *)
(* with any list of lead records.                                          *)
(***************************************************************************)
LeadRecords ==
  {[name |-> n, url |-> [form |-> "profile", id |-> 1], phone |-> p, website |-> w,
    has_website |-> IF Truthy(w) THEN "Yes" ELSE "No", about |-> "", work |-> ""] :
     n \in {"Ann", "Bob"}, p \in Phones, w \in Websites}
  \cup {[name |-> "Cy", url |-> [form |-> "profile", id |-> 2], phone |-> "555-123-4567"]}

InitCsv ==
  /\ pc = "export"
  /\ urls = <<"g1", "g2">>
  /\ cookieStore = "cookies"
  /\ page_view = NoView
  /\ profile = NoProfile
  /\ loggedIn = TRUE
  /\ expiredIn = "never"
  /\ all_matches \in SeqsUpTo(LeadRecords, MaxCsvLen)
  /\ matches = <<>>
  /\ browser = "closed"
  /\ url_idx = 3
  /\ results = <<>>
  /\ total_scanned = 0
  /\ group_names_scraped = <<"Plumbers", "unknown_group">>
  /\ group_name = "unknown_group"
  /\ retval = NoRetval
  /\ files = {}
  /\ tokens = 0
  /\ sink = EmptySink
  /\ all_scanned = {}
  /\ list_items = <<>>
  /\ no_new_count = 0
  /\ scroll_count = 0
  /\ consecutive_errors = 0
  /\ last_pass = NoPass
  /\ idx = 0
  /\ s2_results = <<>>
  /\ errors_in_row = 0
  /\ last_checkpoint = 0
  /\ checkpoint_base = [industry |-> Industry, group |-> "unknown_group", suffix |-> 0]
  /\ outcomes = <<>>
  /\ cutoff = FALSE
  /\ faults = 0
  /\ timed_out = FALSE
  /\ cleanup_raised = FALSE
  /\ scrapedLoggedOut = FALSE
  /\ elapsed = 0

NextCsv == ExportCombined

SpecCsv == InitCsv /\ [][NextCsv]_vars

(***************************************************************************)
(* is_login_page on its own: called on any page the probes can find.       *)
(***************************************************************************)
InitLogin ==
  /\ pc = "probe"
  /\ urls = <<"g1">>
  /\ cookieStore = "cookies"
  /\ page_view \in [probes : PageViews, checked : {FALSE}, is_login : {FALSE}]
  /\ profile = NoProfile
  /\ loggedIn \in BOOLEAN
  /\ expiredIn = (IF loggedIn THEN "never" ELSE "start")
  /\ all_matches = <<>>
  /\ matches = <<>>
  /\ InitLocals

NextLogin == CheckLogin

SpecLogin == InitLogin /\ [][NextLogin]_vars

(***************************************************************************)
(* The extraction script on its own: run on any profile text.              *)
(***************************************************************************)
InitPhone ==
  /\ pc = "extract"
  /\ urls = <<"g1">>
  /\ cookieStore = "cookies"
  /\ page_view = NoView
  /\ profile \in [text : ProfileTexts, done : {FALSE}, phone : {<<>>}]
  /\ loggedIn = TRUE
  /\ expiredIn = "never"
  /\ all_matches = <<>>
  /\ matches = <<>>
  /\ InitLocals

NextPhone == ExtractProfile

SpecPhone == InitPhone /\ [][NextPhone]_vars

(***************************************************************************)
(* The claims.                                                             *)
(***************************************************************************)
Terminal(status) == status \in {"completed", "error"}
Ended == pc \in {"returned", "raised"}

(* C1: stage 2 yields one record per candidate it processes, a failed one   *)
(* included: without the cutoff it returns as many records as there are     *)
(* candidates, and the record of a candidate whose navigation timed out or  *)
(* whose extraction failed has phone, website and about empty and           *)
(* has_website 'No'.                                                        *)
C1_OneRecordPerCandidate ==
  /\ Len(s2_results) = idx
  /\ Len(outcomes) = idx
  /\ (pc = "s2_ret" /\ ~cutoff) => Len(s2_results) = Len(matches)
  /\ \A i \in 1..Len(s2_results) :
       (i <= Len(outcomes) /\ outcomes[i] # "ok") =>
         /\ s2_results[i].url.id = matches[i].url.id
         /\ s2_results[i].phone = ""
         /\ s2_results[i].website = ""
         /\ s2_results[i].about = ""
         /\ s2_results[i].has_website = "No"

(* A full run past the second cutoff check in which a candidate whose page  *)
(* shows a phone timed out. *)
C1_Witness ==
  /\ pc = "s2_ret"
  /\ ~cutoff
  /\ Len(matches) > Stage2CheckEvery
  /\ \E i \in 1..Len(outcomes) :
       outcomes[i] = "timeout" /\ PagePhone(matches[i].url.id) # "" /\ s2_results[i].phone = ""

(* C2: at every point of stage 2 the records produced so far are those of a *)
(* prefix of the candidate list, position by position.                      *)
C2_InputOrder ==
  /\ Len(s2_results) <= Len(matches)
  /\ \A i \in 1..Len(s2_results) :
       /\ s2_results[i].url.id = matches[i].url.id
       /\ s2_results[i].name = matches[i].text[1]

C2_Witness == pc = "s2_loop" /\ Len(s2_results) >= 3 /\ Len(s2_results) < Len(matches)

(* C3: a run that has ended has emitted exactly one terminal event, as its  *)
(* last event, after running events only; and no terminal event is ever     *)
(* followed by another event.                                               *)
C3_OneTerminalEvent ==
  /\ sink.nTerminal <= 1
  /\ sink.nTerminal = 1 => Terminal(sink.last.status)
  /\ Ended => (sink.nTerminal = 1 /\ Terminal(sink.last.status) /\ ~sink.earlierNotRunning)

(* C4: once the login page was detected the job has emitted its only        *)
(* terminal event, an error naming the cookies, has returned failure, and   *)
(* takes no further step.                                                   *)
LoginDetected == sink.n > 0 /\ sink.last.message = LoginMessage

C4_LoginDetectedEndsJob ==
  /\ [](LoginDetected =>
          /\ sink.last.status = "error"
          /\ sink.nTerminal = 1
          /\ ~sink.earlierNotRunning
          /\ pc = "returned"
          /\ retval = [success |-> FALSE, error |-> "Login required - cookies expired"]
          /\ browser = "closed")
  /\ [][~LoginDetected]_vars

(* The login page shows at the second target, after leads of the first. *)
C4_Witness == LoginDetected /\ url_idx = 2 /\ all_matches # <<>>

(* C5: a session that expires while stage 1 or stage 2 runs ends the job    *)
(* with an error event, and no candidate is scraped after it expired.       *)
C5_ExpiryIsFatal ==
  expiredIn \in {"s1_loop", "s2_loop"} =>
    /\ ~scrapedLoggedOut
    /\ Ended => sink.last.status = "error"

(* C6: when the job ends with an error event, every lead that stage 2 has   *)
(* returned is a row of some file.                                          *)
C6_LeadsPersistedOnError ==
  (Ended /\ sink.last.status = "error") =>
    \A i \in 1..Len(all_matches) :
      \E f \in files : \E j \in 1..Len(f.rows) : f.rows[j] = CsvRow(all_matches[i])

(* C7: with a cookie store that is missing, unreadable, not a list or empty *)
(* the job emits one event, the cookies error, returns failure, launches no *)
(* browser and processes no target.                                         *)
C7_NoCookiesRejected ==
  cookieStore \in {"missing", "unreadable", "not_a_list", "empty_list"} =>
    \/ pc = "start" /\ sink.n = 0
    \/ /\ pc = "returned"
       /\ sink.n = 1
       /\ sink.last.status = "error"
       /\ sink.last.message = NoCookiesMessage
       /\ retval = [success |-> FALSE, error |-> "No cookies configured"]
       /\ browser = "none"
       /\ url_idx = 1 /\ results = <<>> /\ group_names_scraped = <<>>
       /\ files = {}

C7_Witness == pc = "returned" /\ cookieStore = "not_a_list" /\ urls # <<>>

C9_QualityTable ==
  \A f \in files : \A i \in 1..Len(f.rows) :
    LET r == f.rows[i]
        phone == r.phone # ""
        website == r.website # ""
    IN /\ r.prospect_quality \in {"HOT", "WARM", "COLD", "LOW"}
       /\ r.prospect_quality = "HOT" <=> (phone /\ ~website)
       /\ r.prospect_quality = "WARM" <=> (phone /\ website)
       /\ r.prospect_quality = "COLD" <=> (~phone /\ ~website)
       /\ r.prospect_quality = "LOW" <=> (~phone /\ website)

C9_Witness ==
  \E f \in files : {f.rows[i].prospect_quality : i \in 1..Len(f.rows)} = {"HOT", "WARM", "COLD", "LOW"}

(* C10: the rows of an export are in descending order of the key            *)
(* (hasPhone + noWebsite, hasPhone), so HOT, then WARM, then COLD, then     *)
(* LOW, and the rows of equal key are in their input order.                 *)
ClaimKey(r) ==
  <<(IF r.phone # "" THEN 1 ELSE 0) + (IF r.website = "" THEN 1 ELSE 0),
    IF r.phone # "" THEN 1 ELSE 0>>
QualityRank(q) == IF q = "HOT" THEN 1 ELSE IF q = "WARM" THEN 2 ELSE IF q = "COLD" THEN 3 ELSE 4
Keys == {<<2, 1>>, <<1, 1>>, <<1, 0>>, <<0, 0>>}
InputRows == [i \in 1..Len(all_matches) |-> CsvRow(all_matches[i])]

C10_SortedStable ==
  \A f \in files :
    /\ \A i \in 1..Len(f.rows) : \A j \in i..Len(f.rows) :
         /\ ~TupleLess(ClaimKey(f.rows[i]), ClaimKey(f.rows[j]))
         /\ QualityRank(f.rows[i].prospect_quality) <= QualityRank(f.rows[j].prospect_quality)
    /\ \A k \in Keys :
         LET HasKey(r) == ClaimKey(r) = k
         IN SelectSeq(f.rows, HasKey) = SelectSeq(InputRows, HasKey)

(* LOW, COLD, WARM, HOT and a second COLD came in, in this order. *)
C10_Witness ==
  /\ Len(all_matches) = 5
  /\ [i \in 1..5 |-> InputRows[i].prospect_quality] = <<"LOW", "COLD", "WARM", "HOT", "COLD">>
  /\ all_matches[2].name # all_matches[5].name
  /\ \E f \in files : Len(f.rows) = 5

(* C11: a file holds the fixed header and one row for each record of the    *)
(* list it was written from, none dropped and none twice; a row has the     *)
(* columns of the header only, and '' in a column the record lacks.         *)
Occurrences(s, x) == Cardinality({i \in 1..Len(s) : s[i] = x})

C11_OneRowPerRecord ==
  \A f \in files :
    /\ f.header = <<"prospect_quality", "name", "phone", "website", "has_website",
                    "about", "work", "url">>
    /\ Len(f.rows) = Len(all_matches)
    /\ \A i \in 1..Len(f.rows) :
         /\ DOMAIN f.rows[i] = Range(f.header)
         /\ Occurrences(f.rows, f.rows[i]) = Occurrences(InputRows, f.rows[i])
    /\ \A i \in 1..Len(all_matches) :
         LET lead == all_matches[i]
         IN \E j \in 1..Len(f.rows) :
              /\ f.rows[j].name = lead.name
              /\ \A k \in Range(f.header) \ {"prospect_quality"} :
                   f.rows[j][k] = (IF k \in DOMAIN lead THEN lead[k] ELSE "")

(* A list with the same record twice and a record without website, *)
(* has_website, about and work, each carrying the extra source_group.       *)
C11_Witness ==
  \E f \in files :
    /\ Len(f.rows) = 4
    /\ \E i, j \in 1..Len(all_matches) : i # j /\ all_matches[i] = all_matches[j]
    /\ \E i \in 1..Len(all_matches) :
         /\ "work" \notin DOMAIN all_matches[i]
         /\ "source_group" \in DOMAIN all_matches[i]

(* C12: in a run of stage 1, whatever the passes returned, an identity is   *)
(* scanned once and matches holds at most one candidate for an identity     *)
(* url: the candidates are those of distinct scanned identities.            *)
C12_Deduplicated ==
  /\ \A i, j \in 1..Len(matches) : matches[i].url = matches[j].url => i = j
  /\ \A i \in 1..Len(matches) : matches[i].url \in all_scanned
  /\ Len(matches) <= Cardinality(all_scanned)
  /\ all_scanned \subseteq {MemberHref(m) : m \in Members}

(* An identity scanned in an earlier pass came twice in the last pass. *)
C12_Witness ==
  /\ pc = "s1_loop"
  /\ Len(list_items) = 2 /\ list_items[1] = list_items[2]
  /\ no_new_count >= 2
  /\ Len(matches) = 1 /\ matches[1].url = MemberHref(list_items[1])

(* C13: stage 1 ends, whatever fails or succeeds: it comes to its return in *)
(* exactly one of the outcomes exhausted (scroll cap or 20 passes without a *)
(* new member), timed out, error-aborted, and never goes on with the error  *)
(* budget used up.                                                          *)
Exhausted == ~(scroll_count < max_scrolls /\ no_new_count < NoNewLimit)
ErrorAborted == consecutive_errors >= max_consecutive_errors
TimedOut == scroll_count % Stage1CheckEvery = 0 /\ elapsed > Stage1Budget
OneOutcome ==
  /\ Exhausted \/ ErrorAborted \/ TimedOut
  /\ ~(Exhausted /\ ErrorAborted) /\ ~(Exhausted /\ TimedOut) /\ ~(ErrorAborted /\ TimedOut)

C13_Stage1Terminates ==
  /\ <>(pc = "s1_ret")
  /\ [](pc = "s1_ret" => OneOutcome)
  /\ [](pc = "s1_loop" => ~ErrorAborted)

(* Five extractions failed in a row after a member was collected. *)
C13_Witness == pc = "s1_ret" /\ ErrorAborted /\ matches # <<>>

(* The export files: the files that are no checkpoint. *)
Exports == {f \in files : f.name.kind \in {"single", "combined"}}
Completed == pc = "returned" /\ sink.last.status = "completed"

RECURSIVE SumFound(_)
SumFound(rs) == IF rs = <<>> THEN 0 ELSE rs[1].matches_found + SumFound(Tail(rs))

HoldsAllLeads(f) ==
  /\ Len(f.rows) = Len(all_matches)
  /\ \A i \in 1..Len(f.rows) :
       Occurrences(f.rows, f.rows[i]) = Occurrences(InputRows, f.rows[i])

(* C14 as stated: a completed run over several targets has written exactly *)
(* one export file, the combined one, with a row for every lead.            *)
C14_OneCombinedExport ==
  (Completed /\ Len(urls) > 1) =>
    \E f \in Exports :
      Exports = {f} /\ f.name.kind = "combined" /\ HoldsAllLeads(f)

(* C14, amended: a completed run over several targets has accumulated the   *)
(* leads of all its targets; with at least one lead it has written exactly  *)
(* one export file, the combined one, with a row for every lead; with no    *)
(* lead it has written no export file.                                      *)
C14_OneCombinedExportIfLeads ==
  (Completed /\ Len(urls) > 1) =>
    /\ Len(all_matches) = SumFound(results)
    /\ all_matches # <<>> =>
         \E f \in Exports :
           Exports = {f} /\ f.name.kind = "combined" /\ HoldsAllLeads(f)
    /\ all_matches = <<>> => Exports = {}

(* Both targets gave a lead. *)
C14_Witness ==
  /\ Completed /\ Len(urls) = 2 /\ Len(all_matches) = 2
  /\ \E f \in Exports : f.name.kind = "combined" /\ Len(f.rows) = 2

(* C15: a completed run over one target that has a lead has written        *)
(* exactly one export file.                                                 *)
C15_SingleTargetExportsOnce ==
  (Completed /\ Len(urls) = 1 /\ all_matches # <<>>) => Cardinality(Exports) = 1

Persisted(lead) ==
  \E f \in Exports : \E j \in 1..Len(f.rows) : f.rows[j] = CsvRow(lead)

HadTargetError == \E i \in 1..Len(results) : "error" \in DOMAIN results[i]

(* The lead b is the lead a, possibly with keys added (source_group). *)
SameLead(a, b) == \A k \in DOMAIN a : k \in DOMAIN b /\ b[k] = a[k]

(* Every target gone through has its own entry, in the order of urls; the  *)
(* entry of a target whose processing raised counts no lead; the leads of   *)
(* the other targets are all held.                                          *)
ErrorsStayLocal ==
  /\ Len(results) = url_idx - 1
  /\ \A i \in 1..Len(results) :
       /\ results[i].url = urls[i]
       /\ "error" \in DOMAIN results[i] => results[i].matches_found = 0
  /\ SumFound(results) <= Len(all_matches)

(* A step that records an error for a target goes on with the next target,  *)
(* in the same browser, and no step loses a lead already gathered.          *)
ErrorsAbsorbedStep ==
  /\ (Len(results') > Len(results) /\ "error" \in DOMAIN results'[Len(results')]) =>
       /\ pc' = "url_loop"
       /\ url_idx' = url_idx + 1
       /\ browser' = browser
       /\ sink'.nTerminal = 0
  /\ Len(all_matches') >= Len(all_matches)
  /\ \A i \in 1..Len(all_matches) : SameLead(all_matches[i], all_matches'[i])

RecoveryAt(i) ==
  /\ i >= max_errors
  /\ \A k \in (i - max_errors + 1)..i : outcomes[k] = "raised"

WholeListDone == pc = "s2_ret" /\ ~cutoff /\ idx = Len(matches)

SnapshotOf(rows, k) ==
  /\ k <= Len(s2_results)
  /\ Len(rows) = k
  /\ \A i \in 1..k : Occurrences(rows, CsvRow(s2_results[i])) = 1

(* C20: a checkpoint written at a result count of k holds exactly the first *)
(* k records of the result list, each once, and so a later checkpoint holds *)
(* every record of an earlier one.                                          *)
C20_CheckpointIsSnapshot ==
  /\ \A f \in MyCheckpoints : SnapshotOf(f.rows, f.name.stamp)
  /\ \A f, g \in MyCheckpoints :
       f.name.stamp <= g.name.stamp =>
         \A i \in 1..Len(f.rows) : Occurrences(g.rows, f.rows[i]) = 1

(* Two checkpoints of one run are on disk, written at different counts, and *)
(* stage 2 has gone on since.                                               *)
C20_Witness ==
  /\ \E f, g \in MyCheckpoints : f.name.stamp < g.name.stamp
  /\ Len(s2_results) > last_checkpoint

(* A turn of stage 1's loop whose extraction went through, and one whose    *)
(* extraction raised.                                                       *)
PassDone == pc = "s1_loop" /\ pc' = "s1_loop" /\ consecutive_errors' = 0
PassFailed == pc = "s1_loop" /\ consecutive_errors' = consecutive_errors + 1

(* C21: stage 1 stops as exhausted exactly when no new identity was found   *)
(* for NoNewLimit (20) passes in a row: a pass that finds a new identity    *)
(* sets the stall counter to 0, one that finds none adds one, a failed pass *)
(* leaves it, the loop goes on below 20 and is left at 20.                  *)
C21_StallDetection ==
  /\ [](no_new_count <= NoNewLimit)
  /\ []((pc = "s1_ret" /\ ~ErrorAborted /\ ~TimedOut) => no_new_count = NoNewLimit)
  /\ [][/\ (PassDone /\ all_scanned' # all_scanned) => no_new_count' = 0
        /\ (PassDone /\ all_scanned' = all_scanned) => no_new_count' = no_new_count + 1
        /\ PassFailed => no_new_count' = no_new_count
        /\ (pc = "s1_loop" /\ no_new_count = NoNewLimit) => (pc' = "s1_ret" /\ ~timed_out')
        /\ (pc = "s1_loop" /\ no_new_count < NoNewLimit /\ pc' = "s1_ret") =>
              (ErrorAborted' \/ timed_out')]_vars

(* Stage 1 returned exhausted, having found a member after passes that      *)
(* found none, and after a failed pass.                                     *)
C21_Witness ==
  /\ pc = "s1_ret"
  /\ no_new_count = NoNewLimit
  /\ all_scanned # {}
  /\ scroll_count > NoNewLimit + 1
  /\ faults > 0

(* C22 as stated: stage 1 aborts on errors only when the consecutive extraction       *)
(* errors exceed the budget of max_consecutive_errors (5), and then returns *)
(* what it has collected; a pass whose extraction went through sets the     *)
(* count to 0.                                                              *)
C22_AbortBeyondBudget ==
  [][/\ (PassFailed /\ pc' = "s1_ret") =>
          /\ consecutive_errors' > max_consecutive_errors
          /\ all_scanned' = all_scanned /\ matches' = matches
     /\ PassDone => consecutive_errors' = 0]_vars

(* C22, amended: the abort comes with the error that makes the count reach  *)
(* max_consecutive_errors, the fifth in a row, not before and not later.    *)
C22_AbortAtBudget ==
  [][/\ (PassFailed /\ pc' = "s1_ret") =>
          /\ consecutive_errors' = max_consecutive_errors
          /\ all_scanned' = all_scanned /\ matches' = matches
     /\ (PassFailed /\ consecutive_errors' < max_consecutive_errors) => pc' = "s1_loop"
     /\ (PassFailed /\ consecutive_errors' >= max_consecutive_errors) => pc' = "s1_ret"
     /\ PassDone => consecutive_errors' = 0]_vars

(* Stage 1 returned on the fifth failed extraction in a row, with the       *)
(* member it had scanned before.                                            *)
C22_Witness ==
  /\ pc = "s1_ret"
  /\ consecutive_errors = max_consecutive_errors
  /\ last_pass.pass \in {"destroyed", "error"}
  /\ all_scanned # {}
  /\ no_new_count > 0

(* A step of stage 1's loop of the given kind. *)
Stage1Step(kind) ==
  pc = "s1_loop" /\ pc' \in {"s1_loop", "s1_ret"} /\ loggedIn' = loggedIn /\ last_pass'.pass = kind

Stage1Skipped ==
  /\ all_scanned' = all_scanned /\ matches' = matches /\ no_new_count' = no_new_count
  /\ scroll_count' = scroll_count /\ sink' = sink

(* C23: an extraction that fails on a destroyed context counts    *)
(* against the error budget only if the member list could not be restored,  *)
(* and either way the iteration harvests nothing and does not scroll.       *)
C23_CountedOnlyIfNotRestored ==
  [][Stage1Step("destroyed") =>
       /\ consecutive_errors' = IF last_pass'.restored THEN consecutive_errors
                                ELSE consecutive_errors + 1
       /\ Stage1Skipped]_vars

(* What the except branch does: such a failure counts against the budget    *)
(* whether or not the member list is restored, as does every other          *)
(* extraction failure, and the iteration harvests nothing and does not      *)
(* scroll.                                                                  *)
CountedEitherWay ==
  [][(Stage1Step("destroyed") \/ Stage1Step("error")) =>
       /\ consecutive_errors' = consecutive_errors + 1
       /\ Stage1Skipped]_vars

(* The context was destroyed after a member was scanned, the member list    *)
(* was restored, and the failure is counted; the loop goes on.              *)
RestoredYetCounted ==
  /\ pc = "s1_loop"
  /\ last_pass.pass = "destroyed" /\ last_pass.restored
  /\ consecutive_errors = 1
  /\ all_scanned # {}

(* The status event of a pass: running, with the totals after the pass.     *)
ProgressEmitted ==
  /\ last_pass'.emitted
  /\ sink'.n > 0
  /\ sink'.last.status = "running"
  /\ sink'.last.data.members_scanned = Cardinality(all_scanned')
  /\ sink'.last.data.matches_found = Len(matches')
  /\ sink'.last.data.benchmark_segment =
       (IF Cardinality(all_scanned') >= 500 THEN 10 ELSE Cardinality(all_scanned') \div 50)

(* C24 as stated: every turn of stage 1's loop ends with a running status   *)
(* event that carries members_scanned, matches_found and the progress       *)
(* segment.                                                                 *)
C24_EventEveryIteration ==
  [][(Stage1Step("ok") \/ Stage1Step("destroyed") \/ Stage1Step("error")) =>
       ProgressEmitted]_vars

(* C24, amended: every turn whose extraction went through emits that event; *)
(* a turn whose extraction raised, and the turn that stops on the time      *)
(* cutoff, emit nothing.                                                    *)
C24_EventEveryHarvest ==
  [][/\ Stage1Step("ok") => ProgressEmitted
     /\ (Stage1Step("destroyed") \/ Stage1Step("error") \/ Stage1Step("timeout")) =>
          (sink' = sink /\ ~last_pass'.emitted)]_vars

(* A pass found a member that qualifies and reported one member scanned,    *)
(* one match; an earlier pass had failed.                                   *)
C24_Witness ==
  /\ pc = "s1_loop"
  /\ last_pass.pass = "ok" /\ last_pass.emitted
  /\ sink.last.data = [members_scanned |-> 1, matches_found |-> 1, benchmark_segment |-> 0]
  /\ no_new_count = 0
  /\ faults > 0

AnyStage1Step ==
  Stage1Step("ok") \/ Stage1Step("destroyed") \/ Stage1Step("error") \/ Stage1Step("timeout")

(* The clock is read, and the budget of Stage1Budget seconds (3 hours)      *)
(* enforced, at the turns that begin with scroll_count a multiple of        *)
(* Stage1CheckEvery (100) and at no other; scroll_count grows by one at     *)
(* most in a turn, so no multiple is passed over.                           *)
PeriodicCheck ==
  [][AnyStage1Step =>
       /\ scroll_count' \in {scroll_count, scroll_count + 1}
       /\ IF scroll_count % Stage1CheckEvery = 0
          THEN (elapsed' > Stage1Budget) <=>
                 (pc' = "s1_ret" /\ timed_out' /\ last_pass'.pass = "timeout")
          ELSE elapsed' = elapsed /\ last_pass'.pass # "timeout" /\ timed_out' = timed_out]_vars

(* C25 as stated: the budget is checked every 100 scrolls, and once it is   *)
(* exceeded stage 1 stops at the next check, which comes within 100 turns   *)
(* of the loop: no more than 100 turns begin between two reads of the       *)
(* clock.                                                                   *)
C25_StopsWithin100Iterations ==
  /\ PeriodicCheck
  /\ [](last_pass.since_check <= Stage1CheckEvery)

(* C25, amended: the next check comes within 100 further scrolls that went  *)
(* through; the turns whose extraction or scroll raised come on top, so     *)
(* more than 100 turns can begin between two reads of the clock, and no     *)
(* fewer turns than scrolls.                                                *)
C25_StopsWithin100Scrolls ==
  /\ PeriodicCheck
  /\ []((pc = "s1_loop" /\ last_pass.since_check # NotCounted /\ scroll_count < Stage1CheckEvery)
          => last_pass.since_check >= scroll_count)

(* Stage 1 stopped on its cutoff at the check of scroll 100, which came     *)
(* after more than 100 turns.                                               *)
C25_Witness ==
  /\ pc = "s1_ret"
  /\ timed_out
  /\ last_pass.pass = "timeout"
  /\ scroll_count = Stage1CheckEvery
  /\ last_pass.since_check > Stage1CheckEvery

(* The places of list s that show an identity for the first time: not in    *)
(* scanned, not at an earlier place of s, and with a name that counts.      *)
FreshAt(s, scanned) ==
  {i \in 1..Len(s) : /\ MemberHref(s[i]) \notin scanned
                     /\ \A j \in 1..(i - 1) : s[j] # s[i]
                     /\ ValidName(MemberText(s[i]))}

(* The candidates of the fresh places that the filter lets through, in the  *)
(* order of the list.                                                       *)
FreshMatches(s, scanned) ==
  LET Qualifies(i) == /\ i \in FreshAt(s, scanned)
                      /\ IsQualifiedProspect(MemberText(s[i]), MemberContext(s[i]), Industry)
      places == SelectSeq([i \in 1..Len(s) |-> i], Qualifies)
  IN [k \in 1..Len(places) |-> Candidate(s[places[k]])]

(* C26: a pass of stage 1 takes the listed members once, adds the new       *)
(* identities to all_scanned and the new identities the filter lets through *)
(* to the end of matches, in the order of the list, and then scrolls; so    *)
(* matches holds the qualifying identities in the order of discovery, each  *)
(* once, and each is in all_scanned.                                        *)
C26_MatchesInDiscoveryOrder ==
  /\ [][Stage1Step("ok") =>
          /\ all_scanned' = all_scanned \cup {MemberHref(list_items'[i]) :
                                                i \in FreshAt(list_items', all_scanned)}
          /\ matches' = matches \o FreshMatches(list_items', all_scanned)
          /\ faults' = faults => scroll_count' = scroll_count + 1]_vars
  /\ [](\A i \in 1..Len(matches) :
          /\ matches[i].url \in all_scanned
          /\ IsQualifiedProspect(matches[i].text, matches[i].context, Industry)
          /\ \A j \in 1..Len(matches) : matches[j] = matches[i] => j = i)
  /\ [](Cardinality({m \in Members : MemberHref(m) \in all_scanned
                                     /\ IsQualifiedProspect(MemberText(m), MemberContext(m), Industry)})
          = Len(matches))

(* Stage 1 returned with the three members scanned and the two that qualify *)
(* in matches, the second of the list first: it was found first.            *)
C26_Witness ==
  /\ pc = "s1_ret"
  /\ Cardinality(all_scanned) = 3
  /\ matches = <<Candidate(2), Candidate(1)>>

(* A turn of stage 2's loop that went through a candidate, and what came of *)
(* the candidate's scrape.                                                  *)
Stage2Step == pc = "s2_loop" /\ idx' = idx + 1

ThisOutcome == outcomes'[Len(outcomes')]

(* C27: an exception met on a candidate adds one to                *)
(* errors_in_row; recovery is tried at once for a destroyed context and,    *)
(* for another exception, once the count exceeds max_errors (5); a recovery *)
(* that succeeds sets the count to 0, one that fails leaves it; a candidate *)
(* scraped without exception sets it to 0.                                  *)
C27_ErrorsInRow ==
  [][Stage2Step =>
       LET n == errors_in_row + 1
       IN CASE ThisOutcome = "ok" -> errors_in_row' = 0
            [] ThisOutcome = "error" -> errors_in_row' \in {0, n}
            [] ThisOutcome \in {"timeout", "raised"} ->
                 errors_in_row' \in (IF n > max_errors THEN {0, n} ELSE {n})]_vars

(* What the loop does: only an exception that leaves scrape_single_profile  *)
(* is counted, the reload comes with the fifth in a row, and a candidate    *)
(* whose page raised inside scrape_single_profile sets the count to 0 like  *)
(* a candidate scraped well.                                                *)
OnlyEscapedErrorsCounted ==
  [][Stage2Step =>
       LET n == errors_in_row + 1
       IN IF ThisOutcome = "raised"
          THEN errors_in_row' \in (IF n >= max_errors THEN {0, n} ELSE {n})
          ELSE errors_in_row' = 0 /\ Len(s2_results') = Len(s2_results) + 1]_vars

(* After errors in a row, a candidate whose page timed out put the count    *)
(* back to 0.                                                               *)
TimeoutClearedCount ==
  /\ Len(outcomes) >= 2
  /\ outcomes[Len(outcomes) - 1] = "raised"
  /\ outcomes[Len(outcomes)] = "timeout"
  /\ errors_in_row = 0

(* The number of results that the latest checkpoint file of this run holds: *)
(* 0 when there is none.                                                    *)
InLatestCheckpoint ==
  IF MyCheckpoints = {} THEN 0
  ELSE LET latest == CHOOSE f \in MyCheckpoints :
                       \A g \in MyCheckpoints : g.name.stamp <= f.name.stamp
       IN Len(latest.rows)

Unsaved == Len(s2_results) - InLatestCheckpoint

(* A turn of the loop whose checkpoint, when one was due, got written:      *)
(* save_to_csv did not raise.                                               *)
CheckpointWritten == Stage2Step /\ (CheckpointDue => last_checkpoint' = Len(s2_results))

(* C28: provided the checkpoint writes succeed, while stage 2 goes *)
(* through the candidates the results that the latest checkpoint does not   *)
(* hold are never more than checkpoint_interval (50): there are none at the *)
(* start, no turn of the loop whose write succeeded takes their number      *)
(* beyond 50, and the timeout leaves their number as it is;                 *)
(* last_checkpoint is the number of results in the latest checkpoint.       *)
C28_UnsavedAtMost50 ==
  /\ [](pc = "s2_loop" /\ idx = 0 => Unsaved = 0)
  /\ [](pc \in {"s2_loop", "s2_done"} => InLatestCheckpoint = last_checkpoint)
  /\ [][(pc = "s2_loop" /\ pc' \in {"s2_loop", "s2_done"} /\ Unsaved <= checkpoint_interval
         /\ (Stage2Step => CheckpointWritten))
          => Unsaved' <= checkpoint_interval]_vars
  /\ [][(CheckpointWritten /\ CheckpointDue) => Unsaved' <= 1]_vars

(* Stage 2 has 100 results, the first 50 of them in the checkpoint written  *)
(* on the way.                                                              *)
C28_Witness ==
  /\ pc = "s2_loop"
  /\ Len(s2_results) = 2 * checkpoint_interval
  /\ InLatestCheckpoint = checkpoint_interval
  /\ last_checkpoint = checkpoint_interval

(* A checkpoint write that raised leaves more than 50 results unsaved.      *)
UnsavedBeyond50 ==
  pc = "s2_loop" /\ Len(s2_results) - InLatestCheckpoint > checkpoint_interval

InStage1 == pc \in {"s1_loop", "s1_ret"}
InStage2 == pc \in {"s2_loop", "s2_done", "s2_ret"}

(* C29: the job goes through the pipeline in sequence.  Targets    *)
(* are taken one at a time in the order of urls: url_idx moves by one, from  *)
(* between two targets or from the return of a stage, never from inside a    *)
(* stage, and the entries of results follow urls.  Stage 2 of a target is    *)
(* entered from the return of its stage 1 only, and works on the matches     *)
(* and all_scanned that stage 1 returned.  Stage 2 goes through one          *)
(* candidate per turn, in the order of matches.                              *)
C29_Sequential ==
  /\ [][url_idx' # url_idx =>
          /\ url_idx' = url_idx + 1
          /\ pc \in {"url_loop", "s1_ret", "s2_ret"}
          /\ pc' = "url_loop"]_vars
  /\ [][(InStage1' /\ ~InStage1) => (pc = "url_loop" /\ url_idx' = url_idx)]_vars
  /\ [][(InStage2' /\ ~InStage2) =>
          (pc = "s1_ret" /\ url_idx' = url_idx /\ idx' = 0 /\ s2_results' = <<>>
           /\ matches' = matches /\ all_scanned' = all_scanned)]_vars
  /\ [][(InStage2 /\ InStage2') =>
          /\ matches' = matches /\ all_scanned' = all_scanned
          /\ idx' \in {idx, idx + 1}
          /\ Len(s2_results') <= Len(s2_results) + (idx' - idx)
          /\ pc = "s2_ret" => pc' = "s2_ret"]_vars
  /\ []((InStage1 \/ InStage2) =>
          /\ url_idx \in 1..Len(urls)
          /\ Len(results) = url_idx - 1
          /\ \A i \in 1..Len(results) : results[i].url = urls[i])
  /\ [](InStage2 => Len(outcomes) = idx /\ idx <= Len(matches))

(* Stage 2 of the second target at work on a candidate, after the first     *)
(* target went through both stages and gave its leads.                      *)
C29_Witness ==
  /\ pc = "s2_loop"
  /\ url_idx = 2
  /\ idx = 1
  /\ Len(results) = 1
  /\ results[1].url = urls[1]
  /\ results[1].matches_found > 0
  /\ Len(all_matches) > 0

Probed == pc = "probed" /\ page_view.checked

DomIndicates(view) ==
  view.form = "found" \/ view.button = "found" \/ ContentIndicates(view.content)

(* C30: is_login_page is the logical OR of its heuristics: it      *)
(* returns true whenever the url, the title or a DOM marker indicates a     *)
(* login or checkpoint page, and false only when none does.                 *)
C30_LogicalOr ==
  Probed =>
    (page_view.is_login <=>
       (\/ UrlIndicates(page_view.probes.url)
        \/ TitleIndicates(page_view.probes.title)
        \/ DomIndicates(page_view.probes)))

NoProbeRaises(view) == Raises \notin {view.title, view.form, view.button, view.content}

(* What is_login_page does: it is the OR when no probe raises, and it       *)
(* never returns true on a page where no heuristic indicates.               *)
OrUnlessRaised ==
  Probed =>
    /\ NoProbeRaises(page_view.probes) =>
         (page_view.is_login <=> IsLoginPageAnyOrder(page_view.probes))
    /\ page_view.is_login => IsLoginPageAnyOrder(page_view.probes)

(* page.title() raised on a page that holds the login form: not detected.   *)
LoginFormMissed ==
  /\ Probed
  /\ page_view.probes.title = Raises
  /\ page_view.probes.form = "found"
  /\ ~page_view.is_login

Digits == {"0", "1", "2", "3", "4", "5", "6", "7", "8", "9"}

(* DDD-DDD-DDDD *)
PhoneForm(phone) ==
  /\ Len(phone) = 12
  /\ \A i \in 1..12 : IF i \in {4, 8} THEN phone[i] = "-" ELSE phone[i] \in Digits

WithoutDashes(phone) == LET IsDigit(c) == c # "-" IN SelectSeq(phone, IsDigit)

Matching(text) == {p \in PhonePatterns : text[p] # NoMatch}

First(ps) == CHOOSE p \in ps : \A q \in ps : p <= q

Extracted == pc = "extracted" /\ profile.done

(* C31 as stated: the first pattern of the list that matches decides the    *)
(* phone, which is empty or of the form DDD-DDD-DDDD.                       *)
C31_FirstMatchWins ==
  Extracted =>
    /\ profile.phone = <<>> \/ PhoneForm(profile.phone)
    /\ Matching(profile.text) = {} => profile.phone = <<>>
    /\ Matching(profile.text) # {} =>
         LET won == profile.text[First(Matching(profile.text))]
         IN IF Len(won) >= 10
            THEN WithoutDashes(profile.phone) = SubSeq(won, Len(won) - 9, Len(won))
            ELSE profile.phone = <<>>

(* C31: the first pattern of the list whose match holds ten digits *)
(* or more decides the phone, which is the last ten digits of that match as *)
(* DDD-DDD-DDDD; the phone is empty when no pattern has such a match.       *)
C31_FirstUsableMatchWins ==
  Extracted =>
    LET usable == {p \in Matching(profile.text) : Len(profile.text[p]) >= 10}
    IN /\ profile.phone = <<>> \/ PhoneForm(profile.phone)
       /\ usable = {} <=> profile.phone = <<>>
       /\ usable # {} =>
            LET won == profile.text[First(usable)]
            IN WithoutDashes(profile.phone) = SubSeq(won, Len(won) - 9, Len(won))

(* Two patterns have a usable match with different numbers, and the one     *)
(* earlier in the list gave the phone.                                      *)
C31_Witness ==
  /\ Extracted
  /\ profile.text[1] = NumberB
  /\ profile.text[8] = <<"4", "4">> \o NumberA
  /\ profile.phone = Dashed(NumberB)

(* C32: the cookie store is read at the start of the job and at no *)
(* other place, and no step of the job writes or removes it: its content is *)
(* the same after every step, so after every run, completed or in error.    *)
C32_CookieStoreUntouched ==
  /\ [][cookieStore' = cookieStore]_vars
  /\ [][pc' = "start" => pc \in {"start", "api"}]_vars
  /\ [](pc \notin {"api", "start", "rejected"} =>
          (retval = [success |-> FALSE, error |-> "No cookies configured"]
             <=> LoadCookies(cookieStore) = <<>>))

(* A run that gave leads has ended, the store as it was read. *)
C32_Witness ==
  /\ pc = "returned"
  /\ retval.success
  /\ retval.total_matches > 0
  /\ cookieStore = "cookies"

(* C33: the cleanup at the end of stage 2 removes checkpoint files *)
(* of this run only: the checkpoint files of other runs, one of them for    *)
(* the same industry and group, and the final exports found in the          *)
(* directory are there, as they were, at every point of stage 2 and after   *)
(* its return; what stage 2 adds or removes bears the suffix of this run.   *)
C33_OnlyOwnCheckpointsRemoved ==
  /\ [](OtherRunsFiles \subseteq files)
  /\ [](\A f \in files \ OtherRunsFiles :
          f.name.kind = "checkpoint" /\ f.name.base = checkpoint_base)
  /\ [][\A f \in files \ files' :
          f.name.kind = "checkpoint" /\ f.name.base.suffix = checkpoint_base.suffix]_vars

(* Stage 2 returned after the whole list, its own checkpoints written and   *)
(* removed, the files of the other runs in place.                           *)
C33_Witness ==
  /\ WholeListDone
  /\ last_checkpoint >= checkpoint_interval
  /\ ~cleanup_raised
  /\ files = OtherRunsFiles

MultiTargetDone == pc = "returned" /\ retval.success /\ Len(urls) > 1

(* C34: in a run over several targets, the entries of the returned *)
(* results that were recorded with file None name the combined export at    *)
(* the end of the run.                                                      *)
C34_EntriesNameCombinedFile ==
  MultiTargetDone =>
    \A i \in 1..Len(retval.results) :
      "file" \in DOMAIN retval.results[i] =>
        retval.results[i].file = retval.combined_file

(* What the run returns: the entries as they were appended, file None, next *)
(* to a combined export that was written.                                   *)
EntriesKeepNone ==
  MultiTargetDone =>
    /\ retval.results = results
    /\ \A i \in 1..Len(results) : "file" \in DOMAIN results[i] => results[i].file = None

LeadsFileNotNamed ==
  /\ MultiTargetDone
  /\ retval.combined_file # None
  /\ \E i \in 1..Len(retval.results) :
       /\ "file" \in DOMAIN retval.results[i]
       /\ retval.results[i].matches_found > 0
       /\ retval.results[i].file = None

OverStage1Budget == elapsed > Stage1Budget

(* C35: the budget of stage 1 counts from the start of the job.    *)
(* Once the clock has been read beyond Stage1Budget (3 hours), stage 1 of a  *)
(* target stops at its first turn with all_scanned and matches empty, and    *)
(* the target's entry has no member scanned and no match; the leads of the   *)
(* job stay as they were.                                                    *)
C35_LateTargetsGiveNothing ==
  /\ [][(pc = "s1_loop" /\ OverStage1Budget /\ loggedIn' = loggedIn) =>
          (pc' = "s1_ret" /\ timed_out' /\ last_pass'.pass = "timeout"
           /\ all_scanned' = {} /\ matches' = <<>>)]_vars
  /\ []((pc = "s1_loop" /\ OverStage1Budget) =>
          (all_scanned = {} /\ matches = <<>> /\ scroll_count = 0))
  /\ [][(pc = "s1_ret" /\ all_scanned = {} /\ pc' # pc) =>
          /\ matches = <<>>
          /\ pc' = "url_loop"
          /\ all_matches' = all_matches
          /\ total_scanned' = total_scanned
          /\ results' = Append(results, GroupEntry(urls[url_idx], group_name, 0, 0, None))]_vars

(* The first target gave a lead and took more than three hours; stage 1 of  *)
(* the second target has returned on the timeout with nothing.              *)
C35_Witness ==
  /\ pc = "s1_ret"
  /\ url_idx = 2
  /\ Len(all_matches) > 0
  /\ OverStage1Budget
  /\ last_pass.pass = "timeout"
  /\ all_scanned = {}

CutShort == cutoff /\ idx < Len(matches)

(* C36: when stage 2 stops on its cutoff before the end of the     *)
(* list, it returns the records of the candidates it went through, in their *)
(* order, and the checkpoint files of the run stay; a checkpoint file is    *)
(* removed only by the cleanup of a run that holds a record for every       *)
(* candidate.                                                               *)
C36_CutoffKeepsCheckpoints ==
  /\ [](cutoff => (idx < Len(matches) /\ pc \in {"s2_done", "s2_ret"}))
  /\ []((CutShort /\ pc \in {"s2_done", "s2_ret"}) =>
          /\ Len(s2_results) <= idx
          /\ \A i \in 1..Len(outcomes) :
               outcomes[i] # "raised" =>
                 \E j \in 1..Len(s2_results) :
                   s2_results[j] = ScrapeSingleProfile(matches[i], outcomes[i]))
  /\ [][(pc = "s2_done" /\ CutShort) =>
          (pc' = "s2_ret" /\ files' = files /\ s2_results' = s2_results)]_vars
  /\ [][(\E f \in files \ files' : f.name.kind = "checkpoint") =>
          (pc' = "s2_ret" /\ Len(s2_results) = Len(matches) /\ ~cutoff)]_vars

(* Stage 2 returned on its cutoff after 100 of 101 candidates, the          *)
(* checkpoint of the first 50 still there.                                  *)
C36_Witness ==
  /\ pc = "s2_ret"
  /\ CutShort
  /\ Len(s2_results) = 2 * checkpoint_interval
  /\ \E f \in MyCheckpoints : Len(f.rows) = checkpoint_interval

(* A turn of stage 2 in which a checkpoint was due and no file came of it:  *)
(* save_to_csv raised.                                                      *)
FailedWrite == Stage2Step /\ CheckpointDue /\ files' = files

(* C37: a checkpoint write that fails is absorbed.  The turn goes  *)
(* on with its candidate, whose record is appended to the results as they   *)
(* were; last_checkpoint stays; and a checkpoint is due again at the next    *)
(* turn.  A turn in which a checkpoint is due either fails so or writes all  *)
(* the results.                                                              *)
C37_FailedWriteAbsorbed ==
  /\ [][FailedWrite =>
          /\ pc' = "s2_loop"
          /\ last_checkpoint' = last_checkpoint
          /\ s2_results' = IF ThisOutcome = "raised" THEN s2_results
                           ELSE Append(s2_results,
                                       ScrapeSingleProfile(matches[idx + 1], ThisOutcome))
          /\ CheckpointDue']_vars
  /\ [][(Stage2Step /\ CheckpointDue /\ ~FailedWrite) =>
          /\ last_checkpoint' = Len(s2_results)
          /\ \E f \in files' \ files :
               f.name.base = checkpoint_base /\ Len(f.rows) = Len(s2_results)]_vars

(* The write at 50 results failed and the one at 51, a turn later, went     *)
(* through.                                                                 *)
C37_Witness ==
  /\ last_checkpoint = checkpoint_interval + 1
  /\ Cardinality(MyCheckpoints) = 1
  /\ \E f \in MyCheckpoints : Len(f.rows) = checkpoint_interval + 1
  /\ Len(s2_results) > last_checkpoint

(* C38: total_matches of the completed event and of the return     *)
(* value is the number of records that stage 2 returned over all targets,   *)
(* total_scanned is the sum of the sizes of all_scanned over the targets,   *)
(* and combined_file is None exactly when total_matches is 0.  The two      *)
(* counts start at 0; the number of leads grows by the records of stage 2   *)
(* at each of its returns and total_scanned by the size of all_scanned at   *)
(* each return of stage 1, and neither changes at another step.             *)
C38_TotalsAddUp ==
  /\ [](pc \in {"start", "launch"} => (Len(all_matches) = 0 /\ total_scanned = 0))
  /\ [][Len(all_matches') = Len(all_matches) + (IF pc = "s2_ret" /\ pc' # pc THEN Len(s2_results) ELSE 0)]_vars
  /\ [][total_scanned' = total_scanned + (IF pc = "s1_ret" /\ pc' # pc THEN Cardinality(all_scanned) ELSE 0)]_vars
  /\ [](Completed =>
          /\ retval.total_matches = Len(all_matches)
          /\ retval.total_scanned = total_scanned
          /\ sink.last.data.total_matches = retval.total_matches
          /\ sink.last.data.total_scanned = retval.total_scanned
          /\ sink.last.data.combined_file = retval.combined_file
          /\ (retval.combined_file = None <=> retval.total_matches = 0)
          /\ retval.combined_file # None => \E f \in files : f.name = retval.combined_file)

(* A run over two targets is completed: both were scanned, one gave a lead, *)
(* and the combined file is named.                                          *)
C38_Witness ==
  /\ Completed
  /\ Len(urls) = 2
  /\ retval.total_scanned = 2
  /\ retval.total_matches = 1
  /\ retval.combined_file # None

HasTotals(event) == "members_scanned" \in DOMAIN event.data

(* C39: over the status events of a run of stage 1, members_scanned *)
(* and matches_found do not go down, matches_found is at most               *)
(* members_scanned, and the progress segment is at most 10.                 *)
C39_ProgressMonotone ==
  /\ [](HasTotals(sink.last) =>
          /\ sink.last.data.matches_found <= sink.last.data.members_scanned
          /\ sink.last.data.benchmark_segment \in 0..10
          /\ pc = "s1_loop" =>
               /\ sink.last.data.members_scanned <= Cardinality(all_scanned)
               /\ sink.last.data.matches_found <= Len(matches))
  /\ [][(pc = "s1_loop" /\ sink' # sink) =>
          /\ HasTotals(sink'.last)
          /\ sink'.last.data.members_scanned = Cardinality(all_scanned')
          /\ sink'.last.data.matches_found = Len(matches')
          /\ HasTotals(sink.last) =>
               /\ sink'.last.data.members_scanned >= sink.last.data.members_scanned
               /\ sink'.last.data.matches_found >= sink.last.data.matches_found
               /\ sink'.last.data.benchmark_segment >= sink.last.data.benchmark_segment]_vars

(* The event of a pass that took the scan beyond the earlier members, a     *)
(* match among them: the segment stays at 10.                               *)
C39_Witness ==
  /\ pc = "s1_loop"
  /\ HasTotals(sink.last)
  /\ sink.last.data.members_scanned > 3 * MaxEarlierBlocks
  /\ sink.last.data.matches_found = 1
  /\ sink.last.data.benchmark_segment = 10

=============================================================================
